---- MODULE Spec2Model ----
(***************************************************************************)
(* Data-handling logic of the Mangae Earth visualisation: CSV ingestion    *)
(* (EarthGlobe.parseBloomCSV, DataPanel.parseBloomCSV,                     *)
(* AmericasDataService.parseCSV), the expanding-radius filter and monthly  *)
(* aggregator of HistoricalChart, the zoom-tier sampler of EarthGlobe and  *)
(* the Americas region resolver.                                           *)
(*                                                                         *)
(* Numbers.  A JavaScript number is a record [nan, v]; v is an integer.    *)
(* Coordinates and the other floating-point columns are held in tenths     *)
(* (40.5 degrees is v = 405); parseInt columns are held in units.          *)
(* A CSV text is a sequence of lines, a line a sequence of cells (the      *)
(* result of split(',')), a cell a sequence of one-character strings.      *)
(***************************************************************************)
EXTENDS Integers, Sequences, FiniteSets, TLC

VARIABLES
    \* ---- the static file served at /us_east_features_labels_2015_2024.csv
    csvText,
    \* ---- which ingestion path this behaviour follows (they share no state)
    csvCall,
    \* ---- EarthGlobe.parseBloomCSV (one call)
    egPc,           \* position: idle, primaryParse, catch, minimalParse, synthetic, done
    egText,         \* text read by the primary fetch / by the fallback re-fetch
    egResult,       \* the array the promise resolved with
    egReturnedAt,   \* which return statement produced it
    egPromise,      \* pending, resolved, rejected
    egErrorReported,\* console.error('Critical error in parseBloomCSV') was executed
    egCounters,     \* validRows, invalidRows, parseErrors, totalDataRows of the primary loop
    egLog,          \* the attempts made, in order
    \* ---- DataPanel.parseBloomCSV (one call)
    dpPc, dpResult, dpPromise, dpErrorReported,
    dpIndexed,      \* the points handed to bloomDataIndex.buildSpatialIndex/buildTemporalIndex
    \* ---- AmericasDataService.parseCSV applied to the text
    amPc, amResult, amThrew,
    \* ---- HistoricalChart: props, the effect's locals kept for inspection, state
    allBloomData,        \* prop: the full point collection
    location,            \* prop: [lat, lng]
    chartPc,             \* mounted (effect not yet run), waiting (timeout pending), shown
    locationData,        \* the filtered set the effect computed
    usedRadiusSq,        \* usedRadius, squared (tenths of a degree, squared)
    timeSeries,          \* the sorted aggregate the effect computed
    timeSeriesData,      \* React state set by the timeout
    dataSourceDistanceSq,\* React state set by the timeout (squared, as usedRadiusSq)
    isLoading,           \* React state
    \* ---- EarthGlobe: the bloom layer of the visualisation effect
    currentCameraHeight, \* metres
    globalBloomData,     \* Map regionId -> points (a function on the region ids)
    samplerPc,           \* stale (effect not yet run), rendered
    maxPointsPerRegion,  \* the tier's point cap the effect computed
    pixelSize,           \* the tier's marker size the effect computed
    rendered,            \* regionId -> what the forEach callback did for the region
    \* ---- dataAvailability: the calls of isWithinAmericasRegion made so far
    regionCalls,
    \* ---- dataAvailability: one call of checkDataCoverage
    covTarget,           \* [lat, lon]: targetLat, targetLon
    covData,             \* csvData
    covPc,               \* idle, returned
    covResult,           \* the DataCoverageResult returned
    \* ---- which service this behaviour exercises (they share no state)
    svcCall,
    \* ---- AmericasDataService (the singleton americasDataService)
    asCache,             \* cache: key -> [has, data]
    asLoadingStatus,     \* loadingStatus: key -> unset, true, false
    asTotalPoints,       \* dataInfo.northAmerica/southAmerica.totalPoints
    asCalls,             \* the calls of the public methods made so far
    asFetches,           \* the fetches loadFile issued so far
    \* ---- HerbariumService (the singleton herbariumService)
    hbData, hbIsLoaded, hbIsLoading,
    hbLoadPromise,       \* loadPromise: 0 (null) or the number of the fetch it stands for
    hbIucnData, hbIucnLoaded,
    hbCalls,             \* the calls of loadData, loadIUCNData and clear made so far
    hbFetches,           \* the fetches issued so far
    \* ---- one call of getLocationData
    glTarget,            \* [lat, lon]: targetLat, targetLon
    glPc,                \* idle, awaitCsv, awaitNasa, resolved, rejected
    glResult,            \* the LocationDataResult the promise resolved with
    glLog,               \* how the fetches made ended, in order
    \* ---- one call of fetchMultipleTLE
    stLookups,           \* one fetchTLEFromCelesTrak call per element of noradIds
    stTleMap,            \* tleMap: noradId -> [has, tle]
    stPc,                \* idle, awaitAll, resolved, rejected
    \* ---- DataPanel: the location effect
    pnLocation,          \* prop: the selected location, or null
    pnRealData,          \* React state realData
    pnLoading,           \* React state loading
    pnRequests,          \* the fetchLocationData calls the effect made so far
    \* ---- one call of startTLEAutoUpdate
    auInterval,          \* the setInterval timer: none, active, cleared
    auUpdates,           \* the updateTLE calls made so far
    \* ---- BloomDataIndex (the singleton bloomDataIndex)
    ixGridIndex,         \* gridIndex: grid key -> points (a function on the keys set)
    ixTimeIndex,         \* timeIndex: time key -> points
    ixDataCache,         \* dataCache: cache key -> [data, timestamp]
    ixNow,               \* Date.now(), in minutes
    ixCalls,             \* the queryData calls made so far
    \* ---- EarthGlobe: the simulation clock and its controls
    tzOffset,            \* the browser's time zone: local time minus UTC, in hours
    currentTime,         \* React state, hours since 2015-01-01T00:00 local time
    startTime,           \* React state: [isNull, t]
    endTime,             \* React state: [isNull, t]
    simulationSpeed,     \* React state
    isPaused,            \* React state
    isEditingTime,       \* React state
    isPlaying,           \* React state
    clockEvents,         \* how many ticks and control events there were so far
    clockLast            \* the last tick or control event

csvVars == <<csvText, csvCall, egPc, egText, egResult, egReturnedAt, egPromise,
             egErrorReported, egCounters, egLog,
             dpPc, dpResult, dpPromise, dpErrorReported, dpIndexed,
             amPc, amResult, amThrew>>

chartVars == <<allBloomData, location, chartPc, locationData, usedRadiusSq,
               timeSeries, timeSeriesData, dataSourceDistanceSq, isLoading>>

samplerVars == <<currentCameraHeight, globalBloomData, samplerPc,
                 maxPointsPerRegion, pixelSize, rendered>>

regionVars == <<regionCalls>>

coverageVars == <<covTarget, covData, covPc, covResult>>

americasVars == <<asCache, asLoadingStatus, asTotalPoints, asCalls, asFetches>>

herbariumVars == <<hbData, hbIsLoaded, hbIsLoading, hbLoadPromise, hbIucnData,
                   hbIucnLoaded, hbCalls, hbFetches>>

locationVars == <<glTarget, glPc, glResult, glLog>>

satelliteVars == <<stLookups, stTleMap, stPc>>

panelVars == <<pnLocation, pnRealData, pnLoading, pnRequests>>

autoVars == <<auInterval, auUpdates>>

serviceVars == <<svcCall, americasVars, herbariumVars, locationVars, satelliteVars,
                 panelVars, autoVars>>

indexVars == <<ixGridIndex, ixTimeIndex, ixDataCache, ixNow, ixCalls>>

clockVars == <<tzOffset, currentTime, startTime, endTime, simulationSpeed, isPaused,
               isEditingTime, isPlaying, clockEvents, clockLast>>

\* the variables of the index and the clock
restVars == <<indexVars, clockVars>>

\* the variables of the other services
laterVars == <<coverageVars, serviceVars, restVars>>

vars == <<csvVars, chartVars, samplerVars, regionVars, laterVars>>

\* the variables of the components other than the one an action belongs to
otherThanCsv == <<chartVars, samplerVars, regionVars, laterVars>>
otherThanChart == <<csvVars, samplerVars, regionVars, laterVars>>
otherThanSampler == <<csvVars, chartVars, regionVars, laterVars>>
otherThanRegion == <<csvVars, chartVars, samplerVars, laterVars>>
otherThanCoverage == <<csvVars, chartVars, samplerVars, regionVars, serviceVars, restVars>>
otherThanServices == <<csvVars, chartVars, samplerVars, regionVars, coverageVars, restVars>>
otherThanRest == <<csvVars, chartVars, samplerVars, regionVars, coverageVars, serviceVars>>
otherThanIndex == <<otherThanRest, clockVars>>
otherThanClock == <<otherThanRest, indexVars>>
otherThanAmericas ==
    <<otherThanServices, herbariumVars, locationVars, satelliteVars, panelVars, autoVars>>
otherThanHerbarium ==
    <<otherThanServices, americasVars, locationVars, satelliteVars, panelVars, autoVars>>
otherThanLocation ==
    <<otherThanServices, americasVars, herbariumVars, satelliteVars, panelVars, autoVars>>
otherThanSatellite ==
    <<otherThanServices, americasVars, herbariumVars, locationVars, panelVars, autoVars>>
otherThanPanel ==
    <<otherThanServices, americasVars, herbariumVars, locationVars, satelliteVars, autoVars>>

\* no call of checkDataCoverage in this behaviour
CoverageAbsent ==
    /\ covTarget = <<>> /\ covData = <<>> /\ covPc = "absent" /\ covResult = <<>>

\* AmericasDataService is not used in this behaviour
AmericasAbsent ==
    /\ asCache = <<>> /\ asLoadingStatus = <<>> /\ asTotalPoints = <<>>
    /\ asCalls = <<>> /\ asFetches = <<>>

\* HerbariumService is not used in this behaviour
HerbariumAbsent ==
    /\ hbData = <<>> /\ hbIsLoaded = FALSE /\ hbIsLoading = FALSE /\ hbLoadPromise = 0
    /\ hbIucnData = "null" /\ hbIucnLoaded = FALSE /\ hbCalls = <<>> /\ hbFetches = <<>>

\* no call of getLocationData in this behaviour
LocationAbsent ==
    /\ glTarget = <<>> /\ glPc = "absent" /\ glResult = <<>> /\ glLog = <<>>

\* no call of fetchMultipleTLE in this behaviour
SatelliteAbsent == stLookups = <<>> /\ stTleMap = <<>> /\ stPc = "absent"

otherThanAuto ==
    <<otherThanServices, americasVars, herbariumVars, locationVars, satelliteVars, panelVars>>

\* no DataPanel in this behaviour
PanelAbsent ==
    /\ pnLocation = <<>> /\ pnRealData = <<>> /\ pnLoading = FALSE /\ pnRequests = <<>>

\* no call of startTLEAutoUpdate in this behaviour
AutoUpdateAbsent == auInterval = "absent" /\ auUpdates = <<>>

\* no service call in this behaviour
ServicesAbsent ==
    /\ svcCall = "none"
    /\ AmericasAbsent /\ HerbariumAbsent /\ LocationAbsent /\ SatelliteAbsent
    /\ PanelAbsent /\ AutoUpdateAbsent

\* BloomDataIndex is not used in this behaviour
IndexAbsent ==
    /\ ixGridIndex = <<>> /\ ixTimeIndex = <<>> /\ ixDataCache = <<>>
    /\ ixNow = 0 /\ ixCalls = <<>>

\* null, where a Date is expected
NullTime == [isNull |-> TRUE, t |-> 0]

\* no tick or control event yet
NoEvent == [op |-> "none", arg |-> <<>>, stopped |-> FALSE, clamped |-> FALSE]

\* no EarthGlobe clock in this behaviour
ClockAbsent ==
    /\ tzOffset = 0 /\ currentTime = 0 /\ startTime = NullTime /\ endTime = NullTime
    /\ simulationSpeed = 0 /\ isPaused = FALSE /\ isEditingTime = FALSE
    /\ isPlaying = FALSE /\ clockEvents = 0 /\ clockLast = NoEvent

RestAbsent == IndexAbsent /\ ClockAbsent

\* none of the other services in this behaviour
LaterAbsent == CoverageAbsent /\ ServicesAbsent /\ RestAbsent

----------------------------------------------------------------------------
\* Body applied to the value of v, v being evaluated once (a local const)
Let(v, Body(_)) == CHOOSE r \in {Body(x) : x \in {v}} : TRUE

----------------------------------------------------------------------------
(* JavaScript numbers *)

Num(x) == [nan |-> FALSE, v |-> x]
NaN == [nan |-> TRUE, v |-> 0]
isNaN(n) == n.nan
\* relational operators: any comparison with NaN is false
Lt(a, b) == ~a.nan /\ ~b.nan /\ a.v < b.v
Gt(a, b) == ~a.nan /\ ~b.nan /\ a.v > b.v
\* x || d : NaN and 0 are falsy
OrDefault(n, d) == IF n.nan \/ n.v = 0 THEN d ELSE n

----------------------------------------------------------------------------
(* Characters, cells and String.prototype.trim / parseFloat / parseInt *)

Digits == {"0", "1", "2", "3", "4", "5", "6", "7", "8", "9"}
Whitespace == {" ", "\r"}

DigitValue(c) ==
    CASE c = "0" -> 0 [] c = "1" -> 1 [] c = "2" -> 2 [] c = "3" -> 3
      [] c = "4" -> 4 [] c = "5" -> 5 [] c = "6" -> 6 [] c = "7" -> 7
      [] c = "8" -> 8 [] c = "9" -> 9

RECURSIVE SkipWs(_)
SkipWs(s) == IF s # <<>> /\ Head(s) \in Whitespace THEN SkipWs(Tail(s)) ELSE s

RECURSIVE DropTrailingWs(_)
DropTrailingWs(s) ==
    IF s # <<>> /\ s[Len(s)] \in Whitespace
    THEN DropTrailingWs(SubSeq(s, 1, Len(s) - 1)) ELSE s

Trim(s) == DropTrailingWs(SkipWs(s))

RECURSIVE TakeDigits(_)
TakeDigits(s) ==
    IF s # <<>> /\ Head(s) \in Digits THEN <<Head(s)>> \o TakeDigits(Tail(s)) ELSE <<>>

RECURSIVE DigitsValue(_)
DigitsValue(ds) ==
    IF ds = <<>> THEN 0
    ELSE DigitsValue(SubSeq(ds, 1, Len(ds) - 1)) * 10 + DigitValue(ds[Len(ds)])

\* the value JavaScript gives a missing array element
Undefined == <<"undefined">>

\* values[i] with a 0-based index; index -1 (indexOf found nothing) is undefined
At(values, idx) == IF idx >= 0 /\ idx < Len(values) THEN values[idx + 1] ELSE Undefined

Unsigned(t) == IF t # <<>> /\ Head(t) \in {"-", "+"} THEN Tail(t) ELSE t
Negative(t) == t # <<>> /\ Head(t) = "-"
FractionDigits(rest) ==
    IF rest # <<>> /\ Head(rest) = "." THEN TakeDigits(Tail(rest)) ELSE <<>>

\* parseFloat: leading whitespace skipped, optional sign, digits, optional
\* fraction; parsing stops at the first character that does not fit; no digit
\* at all gives NaN.  The value is returned in tenths (one fractional digit).
ParseFloat(cell) ==
    Let(SkipWs(cell), LAMBDA t :
    Let(Unsigned(t), LAMBDA u :
    Let(TakeDigits(u), LAMBDA ip :
    Let(FractionDigits(SubSeq(u, Len(ip) + 1, Len(u))), LAMBDA fp :
    Let(DigitsValue(ip) * 10 + (IF fp = <<>> THEN 0 ELSE DigitValue(fp[1])), LAMBDA mag :
        IF ip = <<>> /\ fp = <<>> THEN NaN
        ELSE Num(IF Negative(t) THEN 0 - mag ELSE mag))))))

\* parseInt: as parseFloat but the fraction is not read; the value is in units
ParseInt(cell) ==
    Let(SkipWs(cell), LAMBDA t :
    Let(TakeDigits(Unsigned(t)), LAMBDA ip :
        IF ip = <<>> THEN NaN
        ELSE Num(IF Negative(t) THEN 0 - DigitsValue(ip) ELSE DigitsValue(ip))))

\* headers.indexOf(name): 0-based position of the first equal element, or -1
IndexOf(headers, name) ==
    IF \E i \in 1..Len(headers) : headers[i] = name
    THEN (CHOOSE i \in 1..Len(headers) :
            headers[i] = name /\ \A j \in 1..(i - 1) : headers[j] # name) - 1
    ELSE 0 - 1

MapSeq(s, Op(_)) == [i \in 1..Len(s) |-> Op(s[i])]

\* text.split('\n').filter(line => line.trim()): a line is dropped when it has
\* no comma and only whitespace
LineIsBlank(line) == Len(line) = 0 \/ (Len(line) = 1 /\ Trim(line[1]) = <<>>)
NonBlankLines(text) == SelectSeq(text, LAMBDA l : ~LineIsBlank(l))

----------------------------------------------------------------------------
(* Column names *)

ColLat == <<"l", "a", "t">>
ColLon == <<"l", "o", "n">>
ColTmean == <<"t", "m", "e", "a", "n">>
ColPr == <<"p", "r">>
ColNDVI == <<"N", "D", "V", "I">>
ColLabel == <<"l", "a", "b", "e", "l">>
ColMonth == <<"m", "o", "n", "t", "h">>
ColYear == <<"y", "e", "a", "r">>
ColSrad == <<"s", "r", "a", "d">>
ColSoil == <<"s", "o", "i", "l">>
ColVpd == <<"v", "p", "d">>
ColDtr == <<"d", "t", "r">>
ColAGDD == <<"A", "G", "D", "D">>
ColGDDm == <<"G", "D", "D", "m">>

requiredColumns ==
    <<ColLat, ColLon, ColTmean, ColPr, ColNDVI, ColLabel, ColMonth, ColYear,
      ColSrad, ColSoil, ColVpd, ColDtr, ColAGDD>>

\* the indices object built from a header row
Indices(headers, agddName) ==
    [lat |-> IndexOf(headers, ColLat), lon |-> IndexOf(headers, ColLon),
     tmean |-> IndexOf(headers, ColTmean), pr |-> IndexOf(headers, ColPr),
     NDVI |-> IndexOf(headers, ColNDVI), label |-> IndexOf(headers, ColLabel),
     month |-> IndexOf(headers, ColMonth), year |-> IndexOf(headers, ColYear),
     srad |-> IndexOf(headers, ColSrad), soil |-> IndexOf(headers, ColSoil),
     vpd |-> IndexOf(headers, ColVpd), dtr |-> IndexOf(headers, ColDtr),
     AGDD |-> IndexOf(headers, agddName)]

\* the BloomDataPoint literal every full parser builds from a row
RowPoint(values, indices) ==
    [lat |-> ParseFloat(At(values, indices.lat)),
     lon |-> ParseFloat(At(values, indices.lon)),
     tmean |-> ParseFloat(At(values, indices.tmean)),
     pr |-> ParseFloat(At(values, indices.pr)),
     NDVI |-> ParseFloat(At(values, indices.NDVI)),
     label |-> ParseInt(At(values, indices.label)),
     month |-> ParseInt(At(values, indices.month)),
     year |-> ParseInt(At(values, indices.year)),
     srad |-> ParseFloat(At(values, indices.srad)),
     soil |-> ParseFloat(At(values, indices.soil)),
     vpd |-> ParseFloat(At(values, indices.vpd)),
     dtr |-> ParseFloat(At(values, indices.dtr)),
     AGDD |-> ParseFloat(At(values, indices.AGDD))]

\* point.lat < -90 || point.lat > 90 || point.lon < -180 || point.lon > 180
OutOfRange(p) ==
    Lt(p.lat, Num(0 - 900)) \/ Gt(p.lat, Num(900))
      \/ Lt(p.lon, Num(0 - 1800)) \/ Gt(p.lon, Num(1800))

----------------------------------------------------------------------------
(* EarthGlobe.parseBloomCSV: the primary parse (the body of the try block   *)
(* after the text has been read)                                            *)

\* a row loop that drops an out-of-range row without counting it
PrimaryRowUncounted(acc, line, headers, indices) ==
    IF LineIsBlank(line)
    THEN [acc EXCEPT !.invalidRows = @ + 1]
    ELSE Let(MapSeq(line, Trim), LAMBDA values :
         IF Len(values) # Len(headers)
         THEN [acc EXCEPT !.invalidRows = @ + 1]
         ELSE Let(RowPoint(values, indices), LAMBDA point :
              IF isNaN(point.lat) \/ isNaN(point.lon)
              THEN [acc EXCEPT !.invalidRows = @ + 1]
              ELSE IF OutOfRange(point)
              THEN acc
              ELSE [acc EXCEPT !.data = Append(@, point), !.validRows = @ + 1]))

\* one iteration of the row loop; acc = [data, validRows, invalidRows, parseErrors]
PrimaryRow(acc, line, headers, indices) ==
    IF LineIsBlank(line)
    THEN [acc EXCEPT !.invalidRows = @ + 1]
    ELSE Let(MapSeq(line, Trim), LAMBDA values :
         IF Len(values) # Len(headers)
         THEN [acc EXCEPT !.invalidRows = @ + 1]
         ELSE Let(RowPoint(values, indices), LAMBDA point :
              IF isNaN(point.lat) \/ isNaN(point.lon)
              THEN [acc EXCEPT !.invalidRows = @ + 1]
              ELSE IF OutOfRange(point)
              THEN [acc EXCEPT !.invalidRows = @ + 1]
              ELSE [acc EXCEPT !.data = Append(@, point), !.validRows = @ + 1]))

RECURSIVE PrimaryLoop(_, _, _, _)
\* rows i = 1 .. maxRows of lines (0-based), i.e. lines[2..] here, folded in order
PrimaryLoop(lines, n, headers, indices) ==
    IF n <= 1
    THEN [data |-> <<>>, validRows |-> 0, invalidRows |-> 0, parseErrors |-> 0]
    ELSE Let(PrimaryLoop(lines, n - 1, headers, indices), LAMBDA acc :
             PrimaryRow(acc, lines[n], headers, indices))

NoCounters == [validRows |-> 0, invalidRows |-> 0, parseErrors |-> 0, totalDataRows |-> 0]

\* the columns of requiredColumns whose index is -1
MissingColumns(headers) ==
    SelectSeq(requiredColumns, LAMBDA col : IndexOf(headers, col) = 0 - 1)

Thrown(why, counters) == [thrown |-> TRUE, why |-> why, data |-> <<>>, counters |-> counters]

\* the part of the try block after the header validation
PrimaryRows(lines, headers) ==
    Let(Indices(headers, ColAGDD), LAMBDA indices :
    Let(PrimaryLoop(lines, Len(lines), headers, indices), LAMBDA out :
    Let([validRows |-> out.validRows, invalidRows |-> out.invalidRows,
         parseErrors |-> out.parseErrors, totalDataRows |-> Len(lines) - 1], LAMBDA counters :
        IF Len(out.data) = 0
        THEN Thrown("noValidRows", counters)
        ELSE [thrown |-> FALSE, why |-> "", data |-> out.data, counters |-> counters])))

\* result of the try block once the text is there: thrown, or the data returned
PrimaryParse(text) ==
    IF text = <<>> THEN Thrown("empty", NoCounters)
    ELSE Let(NonBlankLines(text), LAMBDA lines :
         IF Len(lines) = 0 THEN Thrown("noLines", NoCounters)
         ELSE Let(MapSeq(lines[1], Trim), LAMBDA headers :
              IF Len(MissingColumns(headers)) > 0
              THEN Thrown("missingColumns", NoCounters)
              ELSE PrimaryRows(lines, headers)))

----------------------------------------------------------------------------
(* EarthGlobe.parseBloomCSV: fallback 1, the minimal parse of the re-fetched *)
(* text                                                                      *)

MinimalParseLimit == 100

Min(a, b) == IF a < b THEN a ELSE b

MinimalPoint(values, headers) ==
    LET ndviIndex == IndexOf(headers, ColNDVI)
        labelIndex == IndexOf(headers, ColLabel)
        yearIndex == IndexOf(headers, ColYear)
        monthIndex == IndexOf(headers, ColMonth)
    IN  [lat |-> ParseFloat(At(values, IndexOf(headers, ColLat))),
         lon |-> ParseFloat(At(values, IndexOf(headers, ColLon))),
         tmean |-> Num(150),
         pr |-> Num(1000),
         NDVI |-> IF ndviIndex # 0 - 1
                  THEN OrDefault(ParseFloat(At(values, ndviIndex)), Num(5)) ELSE Num(5),
         label |-> IF labelIndex # 0 - 1
                   THEN OrDefault(ParseInt(At(values, labelIndex)), Num(0)) ELSE Num(0),
         month |-> IF monthIndex # 0 - 1
                   THEN OrDefault(ParseInt(At(values, monthIndex)), Num(4)) ELSE Num(4),
         year |-> IF yearIndex # 0 - 1
                  THEN OrDefault(ParseInt(At(values, yearIndex)), Num(2020)) ELSE Num(2020),
         srad |-> Num(12000),
         soil |-> Num(11000),
         vpd |-> Num(500),
         dtr |-> Num(100),
         AGDD |-> Num(1000)]

\* a row is kept when its field count matches and lat, lon are numbers
MinimalRowKept(values, headers) ==
    /\ Len(values) = Len(headers)
    /\ ~isNaN(ParseFloat(At(values, IndexOf(headers, ColLat))))
    /\ ~isNaN(ParseFloat(At(values, IndexOf(headers, ColLon))))

RECURSIVE MinimalLoop(_, _, _)
\* rows lines[2 .. n], in order
MinimalLoop(lines, n, headers) ==
    IF n <= 1 THEN <<>>
    ELSE Let(MinimalLoop(lines, n - 1, headers), LAMBDA before :
             IF MinimalRowKept(lines[n], headers)
             THEN Append(before, MinimalPoint(lines[n], headers))
             ELSE before)

\* fallbackData, or <<>> when one of the enclosing conditions fails
MinimalParse(text) ==
    IF text = <<>> THEN <<>>
    ELSE Let(NonBlankLines(text), LAMBDA lines :
         IF Len(lines) <= 1 THEN <<>>
         ELSE IF IndexOf(lines[1], ColLat) = 0 - 1 \/ IndexOf(lines[1], ColLon) = 0 - 1
         THEN <<>>
         ELSE MinimalLoop(lines, Min(Len(lines), MinimalParseLimit), lines[1]))

----------------------------------------------------------------------------
(* EarthGlobe.parseBloomCSV: fallback 2, the synthetic grid                 *)

\* stands for one Math.random() draw scaled to 0 .. range-1; seed is the
\* nondeterministic source, k the position of the draw
Rand(seed, k, range) == (seed * 7 + k * 13) % range

SyntheticPoint(seed, i, j) ==
    LET k == i * 8 + j
    IN  [lat |-> Num((30 + 2 * i) * 10),
         lon |-> Num((2 * j - 85) * 10),
         tmean |-> Num(150 + Rand(seed, k, 100)),
         pr |-> Num(800 + Rand(seed, k + 1, 400)),
         NDVI |-> Num(3 + Rand(seed, k + 2, 4)),
         label |-> Num(Rand(seed, k + 3, 3)),
         month |-> Num(4),
         year |-> Num(2020),
         srad |-> Num(10000 + Rand(seed, k + 4, 4000)),
         soil |-> Num(10000 + Rand(seed, k + 5, 2000)),
         vpd |-> Num(300 + Rand(seed, k + 6, 400)),
         dtr |-> Num(80 + Rand(seed, k + 7, 60)),
         AGDD |-> Num(500 + Rand(seed, k + 8, 1000))]

\* for (lat = 30; lat <= 45; lat += 2) for (lon = -85; lon <= -70; lon += 2)
SyntheticData(seed) ==
    [n \in 1..64 |-> SyntheticPoint(seed, (n - 1) \div 8, (n - 1) % 8)]

----------------------------------------------------------------------------
(* DataPanel.parseBloomCSV (the body of its try block) and                  *)
(* AmericasDataService.parseCSV                                             *)

\* for (i = 1; i < maxRows; i++): rows lines[2 .. n]; no trim, no range check
RECURSIVE DataPanelLoop(_, _, _, _)
DataPanelLoop(lines, n, headers, indices) ==
    IF n <= 1 THEN <<>>
    ELSE Let(DataPanelLoop(lines, n - 1, headers, indices), LAMBDA before :
         Let(RowPoint(lines[n], indices), LAMBDA point :
             IF Len(lines[n]) = Len(headers) /\ ~isNaN(point.lat) /\ ~isNaN(point.lon)
             THEN Append(before, point)
             ELSE before))

\* lines[0].split(',') throws a TypeError when there is no line at all
DataPanelParse(text) ==
    Let(NonBlankLines(text), LAMBDA lines :
        IF Len(lines) = 0
        THEN [thrown |-> TRUE, data |-> <<>>]
        ELSE Let(Indices(lines[1], ColAGDD), LAMBDA indices :
                 [thrown |-> FALSE,
                  data |-> DataPanelLoop(lines, Len(lines), lines[1], indices)]))

AmericasRowPoint(values, indices) ==
    [RowPoint(values, indices) EXCEPT
        !.label = OrDefault(ParseInt(At(values, indices.label)), Num(0)),
        !.AGDD = OrDefault(ParseFloat(At(values, indices.AGDD)), Num(0))]

\* the validation of parseCSV: numbers, and inside the geographic bounds
AmericasRowValid(point) ==
    /\ ~isNaN(point.lat) /\ ~isNaN(point.lon)
    /\ ~Lt(point.lat, Num(0 - 900)) /\ ~Gt(point.lat, Num(900))
    /\ ~Lt(point.lon, Num(0 - 1800)) /\ ~Gt(point.lon, Num(1800))

RECURSIVE AmericasLoop(_, _, _, _)
AmericasLoop(lines, n, headers, indices) ==
    IF n <= 1 THEN <<>>
    ELSE Let(AmericasLoop(lines, n - 1, headers, indices), LAMBDA before :
         Let(AmericasRowPoint(lines[n], indices), LAMBDA point :
             IF Len(lines[n]) = Len(headers) /\ AmericasRowValid(point)
             THEN Append(before, point)
             ELSE before))

parseCSV(text) ==
    Let(NonBlankLines(text), LAMBDA lines :
        IF Len(lines) = 0
        THEN [thrown |-> TRUE, data |-> <<>>]
        ELSE Let(Indices(lines[1], ColGDDm), LAMBDA indices :
                 [thrown |-> FALSE,
                  data |-> AmericasLoop(lines, Len(lines), lines[1], indices)]))

----------------------------------------------------------------------------
(* The files the model serves                                               *)

MaxRows == 2

\* the header of a well-formed file: the thirteen required columns and the
\* GDDm column of the Americas exports
HeaderFull == requiredColumns \o <<ColGDDm>>
HeaderWithout(col) == SelectSeq(HeaderFull, LAMBDA c : c # col)
\* a header line ending in a carriage return (CRLF file)
HeaderPadded == [HeaderFull EXCEPT ![Len(HeaderFull)] = @ \o <<"\r">>]

Headers == {HeaderFull, HeaderWithout(ColTmean), HeaderWithout(ColLat), HeaderPadded}

\* (lat, lon) cells of the data rows: a valid pair, a latitude and a longitude
\* out of range, a latitude that is no number
CoordCells ==
    {<< <<"4", "0">>, <<"-", "7", "5">> >>,
     << <<"9", "0", ".", "5">>, <<"-", "7", "5">> >>,
     << <<"4", "0">>, <<" ", "-", "1", "8", "1">> >>,
     << <<"n", "a">>, <<"-", "7", "5">> >>}

\* the cell of a data row under a given header column
CellFor(col, latCell, lonCell) ==
    CASE Trim(col) = ColLat -> latCell
      [] Trim(col) = ColLon -> lonCell
      [] Trim(col) = ColTmean -> <<"1", "5", ".", "5">>
      [] Trim(col) = ColNDVI -> <<"0", ".", "6">>
      [] Trim(col) = ColLabel -> <<"2">>
      [] Trim(col) = ColMonth -> <<"4">>
      [] Trim(col) = ColYear -> <<"2", "0", "2", "0">>
      [] OTHER -> <<"7">>

DataRow(header, latCell, lonCell) ==
    [i \in 1..Len(header) |-> CellFor(header[i], latCell, lonCell)]

\* the lines a file may hold after its header: well-formed rows and a row
\* one field short
RowsFor(header) ==
    {DataRow(header, c[1], c[2]) : c \in CoordCells}
      \cup {SubSeq(DataRow(header, <<"4", "0">>, <<"-", "7", "5">>), 1, Len(header) - 1)}

\* what split('\n') gives after the final newline of a file
TrailingLine == << <<>> >>

RECURSIVE SeqsUpTo(_, _)
SeqsUpTo(S, n) ==
    IF n = 0 THEN {<<>>}
    ELSE LET shorter == SeqsUpTo(S, n - 1)
         IN  shorter \cup {Append(q, x) : q \in {r \in shorter : Len(r) = n - 1}, x \in S}

\* the empty file, and files of a header, up to MaxRows rows and a final newline
Files ==
    {<<>>} \cup UNION {{<<h>> \o rows \o <<TrailingLine>> :
                           rows \in SeqsUpTo(RowsFor(h), MaxRows)} : h \in Headers}

\* the body of a non-2xx answer: one line, no comma
ErrorBody == << <<<<"4", "0", "4">>>> >>

FetchOutcomes == {"ok", "networkError", "httpError"}
RandSeeds == {0, 1}

----------------------------------------------------------------------------
(* Actions of EarthGlobe.parseBloomCSV                                      *)

egVars == <<egPc, egText, egResult, egReturnedAt, egPromise, egErrorReported,
            egCounters, egLog>>
dpVars == <<dpPc, dpResult, dpPromise, dpErrorReported, dpIndexed>>
amVars == <<amPc, amResult, amThrew>>

\* a catch block that goes straight to the synthetic grid
OnPrimaryFailureSynthetic == "synthetic"

\* where a throw in the try block lands: the catch block, whose first
\* statement after the error report is the re-fetch of fallback 1
OnPrimaryFailure == "catch"

\* fetch(csvUrl) and response.text(): a network error rejects, a non-2xx
\* status throws at the response.ok test; both land in the catch block
EgPrimaryFetch ==
    /\ csvCall = "EarthGlobe"
    /\ egPc = "idle"
    /\ \E outcome \in FetchOutcomes :
         /\ egLog' = Append(egLog, [step |-> "primaryFetch", outcome |-> outcome])
         /\ IF outcome = "ok"
            THEN /\ egText' = csvText
                 /\ egPc' = "primaryParse"
                 /\ egErrorReported' = egErrorReported
            ELSE /\ egText' = egText
                 /\ egPc' = OnPrimaryFailure
                 /\ egErrorReported' = TRUE
    /\ UNCHANGED <<csvText, csvCall, egResult, egReturnedAt, egPromise, egCounters, dpVars, amVars>>
    /\ UNCHANGED otherThanCsv

\* the rest of the try block; a throw enters the catch block
EgPrimaryParse ==
    /\ egPc = "primaryParse"
    /\ \E r \in {PrimaryParse(egText)} :
           /\ egLog' = Append(egLog, [step |-> "primaryParse",
                                       outcome |-> IF r.thrown THEN r.why ELSE "returned"])
           /\ egCounters' = r.counters
           /\ IF r.thrown
              THEN /\ egPc' = OnPrimaryFailure
                   /\ egErrorReported' = TRUE
                   /\ UNCHANGED <<egResult, egReturnedAt, egPromise>>
              ELSE /\ egPc' = "done"
                   /\ egResult' = r.data
                   /\ egReturnedAt' = "primary"
                   /\ egPromise' = "resolved"
                   /\ egErrorReported' = egErrorReported
    /\ UNCHANGED <<csvText, csvCall, egText, dpVars, amVars>>
    /\ UNCHANGED otherThanCsv

\* the re-fetch rejection escaping parseBloomCSV
RefetchRethrown == [pc |-> "done", promise |-> "rejected"]

\* what a rejected fetch inside the inner try does: the inner catch swallows it
RefetchFailed == [pc |-> "synthetic", promise |-> "pending"]

\* fallback 1: the re-fetch with cache: 'no-cache'
EgFallbackFetch ==
    /\ egPc = "catch"
    /\ \E outcome \in FetchOutcomes :
         /\ egLog' = Append(egLog, [step |-> "refetch", outcome |-> outcome])
         /\ CASE outcome = "ok" ->
                   /\ egText' = csvText
                   /\ egPc' = "minimalParse"
                   /\ egPromise' = egPromise
              [] outcome = "httpError" ->
                   /\ egText' = egText
                   /\ egPc' = "synthetic"
                   /\ egPromise' = egPromise
              [] outcome = "networkError" ->
                   /\ egText' = egText
                   /\ egPc' = RefetchFailed.pc
                   /\ egPromise' = RefetchFailed.promise
    /\ UNCHANGED <<csvText, csvCall, egResult, egReturnedAt, egErrorReported, egCounters,
                   dpVars, amVars>>
    /\ UNCHANGED otherThanCsv

\* fallback 1: the minimal parse of the re-fetched text
EgMinimalParse ==
    /\ egPc = "minimalParse"
    /\ \E fallbackData \in {MinimalParse(egText)} :
           /\ egLog' = Append(egLog, [step |-> "minimalParse",
                                       outcome |-> IF Len(fallbackData) > 0
                                                   THEN "returned" ELSE "noPoint"])
           /\ IF Len(fallbackData) > 0
              THEN /\ egPc' = "done"
                   /\ egResult' = fallbackData
                   /\ egReturnedAt' = "minimal"
                   /\ egPromise' = "resolved"
              ELSE /\ egPc' = "synthetic"
                   /\ UNCHANGED <<egResult, egReturnedAt, egPromise>>
    /\ UNCHANGED <<csvText, csvCall, egText, egErrorReported, egCounters, dpVars, amVars>>
    /\ UNCHANGED otherThanCsv

\* fallback 2: the synthetic grid
EgSynthetic ==
    /\ egPc = "synthetic"
    /\ egPromise = "pending"
    /\ \E seed \in RandSeeds :
         /\ egResult' = SyntheticData(seed)
         /\ egLog' = Append(egLog, [step |-> "synthetic", outcome |-> "returned"])
         /\ egPc' = "done"
         /\ egReturnedAt' = "synthetic"
         /\ egPromise' = "resolved"
    /\ UNCHANGED <<csvText, csvCall, egText, egErrorReported, egCounters, dpVars, amVars>>
    /\ UNCHANGED otherThanCsv

----------------------------------------------------------------------------
(* DataPanel.parseBloomCSV and AmericasDataService.parseCSV as actions      *)

\* fetch, response.text() (response.ok is not tested), the parse and the
\* index build; the catch block returns []
DpParseBloomCSV ==
    /\ csvCall = "DataPanel"
    /\ dpPc = "idle"
    /\ \E outcome \in FetchOutcomes :
       \E r \in {DataPanelParse(IF outcome = "ok" THEN csvText ELSE ErrorBody)} :
             IF outcome = "networkError" \/ r.thrown
             THEN /\ dpResult' = <<>>
                  /\ dpErrorReported' = TRUE
                  /\ dpIndexed' = dpIndexed
             ELSE /\ dpResult' = r.data
                  /\ dpErrorReported' = dpErrorReported
                  /\ dpIndexed' = r.data
    /\ dpPc' = "done"
    /\ dpPromise' = "resolved"
    /\ UNCHANGED <<csvText, csvCall, egVars, amVars>>
    /\ UNCHANGED otherThanCsv

\* parseCSV applied to the text of the file
AmParseCSV ==
    /\ csvCall = "Americas"
    /\ amPc = "idle"
    /\ \E r \in {parseCSV(csvText)} :
           /\ amResult' = r.data
           /\ amThrew' = r.thrown
    /\ amPc' = "done"
    /\ UNCHANGED <<csvText, csvCall, egVars, dpVars>>
    /\ UNCHANGED otherThanCsv

\* no ingestion call has started
CsvCallsIdle ==
    /\ egPc = "idle" /\ egText = <<>> /\ egResult = <<>> /\ egReturnedAt = "none"
    /\ egPromise = "pending" /\ egErrorReported = FALSE
    /\ egCounters = NoCounters /\ egLog = <<>>
    /\ dpPc = "idle" /\ dpResult = <<>> /\ dpPromise = "pending"
    /\ dpErrorReported = FALSE /\ dpIndexed = <<>>
    /\ amPc = "idle" /\ amResult = <<>> /\ amThrew = FALSE

\* the chart is not mounted
ChartAbsent ==
    /\ allBloomData = <<>> /\ location = [lat |-> 0, lng |-> 0]
    /\ chartPc = "absent" /\ locationData = <<>> /\ usedRadiusSq = 0
    /\ timeSeries = <<>> /\ timeSeriesData = <<>> /\ dataSourceDistanceSq = 0
    /\ isLoading = FALSE

\* no bloom layer in this behaviour
SamplerAbsent ==
    /\ currentCameraHeight = 0 /\ globalBloomData = <<>> /\ samplerPc = "absent"
    /\ maxPointsPerRegion = 0 /\ pixelSize = 0 /\ rendered = <<>>

\* no call of the region resolver in this behaviour
RegionAbsent == regionCalls = <<>>

InitCSV ==
    /\ csvText \in Files
    /\ csvCall \in {"EarthGlobe", "DataPanel", "Americas"}
    /\ CsvCallsIdle
    /\ ChartAbsent
    /\ SamplerAbsent
    /\ RegionAbsent
    /\ LaterAbsent

NextCSV ==
    \/ EgPrimaryFetch
    \/ EgPrimaryParse
    \/ EgFallbackFetch
    \/ EgMinimalParse
    \/ EgSynthetic
    \/ DpParseBloomCSV
    \/ AmParseCSV

SpecCSV == InitCSV /\ [][NextCSV]_vars

----------------------------------------------------------------------------
(* HistoricalChart: the expanding-radius filter, the nearest-K fallback and *)
(* the monthly aggregator (the effect's processDataAsync).                  *)
(* Chart points hold finite numbers: lat, lon in tenths of a degree, NDVI   *)
(* in hundredths, tmean, pr, vpd in tenths.  A mean is an exact fraction.   *)

Abs(x) == IF x < 0 THEN 0 - x ELSE x

\* const searchRadii = [0.5, 1.0, 2.0, 5.0, 10.0], in tenths of a degree
searchRadii == <<5, 10, 20, 50, 100>>

NearestK == 50

\* a square test with the longitude comparison turned round
WithinSquareLonTurned(point, loc, radius) ==
    Abs(point.lat - loc.lat) <= radius /\ Abs(point.lon - loc.lng) >= radius

\* the filter predicate: latDiff <= radius && lonDiff <= radius
WithinSquare(point, loc, radius) ==
    Abs(point.lat - loc.lat) <= radius /\ Abs(point.lon - loc.lng) <= radius

SquareFilter(data, loc, radius) ==
    SelectSeq(data, LAMBDA point : WithinSquare(point, loc, radius))

RECURSIVE RadiusSearch(_, _, _)
\* the for loop over searchRadii from position i on: the first radius with a
\* match wins; with none, locationData is what the last filter left (empty)
RadiusSearch(data, loc, i) ==
    Let(SquareFilter(data, loc, searchRadii[i]), LAMBDA found :
        IF Len(found) > 0
        THEN [locationData |-> found, usedRadiusSq |-> searchRadii[i] * searchRadii[i]]
        ELSE IF i = Len(searchRadii)
        THEN [locationData |-> <<>>, usedRadiusSq |-> 0]
        ELSE RadiusSearch(data, loc, i + 1))

\* latDiff * latDiff + lonDiff * lonDiff: the square of the distance the code
\* sorts by (Math.sqrt is increasing, so the order is the same)
DistanceSq(point, loc) ==
    (point.lat - loc.lat) * (point.lat - loc.lat)
      + (point.lon - loc.lng) * (point.lon - loc.lng)

\* allBloomData.map(point => ({...point, distance}))
PointsWithDistance(data, loc) ==
    [i \in 1..Len(data) |-> [point |-> data[i], distance |-> DistanceSq(data[i], loc)]]

\* the order of the comparator (a, b) => b.distance - a.distance
DistanceAfter(a, b) == b - a < 0

\* the order of the comparator (a, b) => a.distance - b.distance: a sorts
\* before b when the difference is negative
DistanceBefore(a, b) == a - b < 0

MinDistance(pwd) ==
    CHOOSE d \in {pwd[i].distance : i \in 1..Len(pwd)} :
        \A j \in 1..Len(pwd) : ~DistanceBefore(pwd[j].distance, d)

RECURSIVE SortByDistance(_)
\* Array.prototype.sort with that comparator: stable, so the elements of
\* equal distance keep their order
SortByDistance(pwd) ==
    IF pwd = <<>> THEN <<>>
    ELSE Let(MinDistance(pwd), LAMBDA d :
             SelectSeq(pwd, LAMBDA e : e.distance = d)
               \o SortByDistance(SelectSeq(pwd, LAMBDA e : e.distance # d)))

\* slice(0, k)
Slice0(s, k) == SubSeq(s, 1, Min(k, Len(s)))

\* the nearest-K fallback
NearestFallback(data, loc) ==
    Let(SortByDistance(PointsWithDistance(data, loc)), LAMBDA sorted :
        [locationData |-> MapSeq(Slice0(sorted, NearestK), LAMBDA e : e.point),
         usedRadiusSq |-> IF Len(sorted) > 0 THEN sorted[1].distance ELSE 0])

\* "Search for nearby data" and "Use closest points if no nearby data"
SelectLocationData(data, loc) ==
    Let(RadiusSearch(data, loc, 1), LAMBDA near :
        IF Len(near.locationData) = 0 THEN NearestFallback(data, loc) ELSE near)

----------------------------------------------------------------------------
(* Aggregator *)

RECURSIVE Gcd(_, _)
Gcd(a, b) == IF b = 0 THEN a ELSE Gcd(b, a % b)

\* the exact quotient a / b (b > 0) in lowest terms
Quotient(a, b) ==
    Let(Gcd(Abs(a), b), LAMBDA g : [num |-> a \div g, den |-> b \div g])

RECURSIVE SumSeq(_)
\* values.reduce((a, b) => a + b, 0); the additions are exact here, so they
\* are grouped by halves to keep the recursion shallow
SumSeq(values) ==
    IF Len(values) = 0 THEN 0
    ELSE IF Len(values) = 1 THEN values[1]
    ELSE SumSeq(SubSeq(values, 1, Len(values) \div 2))
           + SumSeq(SubSeq(values, Len(values) \div 2 + 1, Len(values)))

Mean(values) == Quotient(SumSeq(values), Len(values))

\* the Map key `${point.year}-${point.month}`
MonthKey(point) == <<point.year, point.month>>

\* the keys of monthlyAggregates in insertion order: a key is inserted by
\* the first point that has it (monthlyAggregates.has(key) is false)
MonthKeysInOrder(data) ==
    Let([i \in 1..Len(data) |-> [at |-> i, key |-> MonthKey(data[i])]], LAMBDA keyed :
        MapSeq(SelectSeq(keyed, LAMBDA e : \A j \in 1..(e.at - 1) : keyed[j].key # e.key),
               LAMBDA e : e.key))

\* an aggregate that takes every point, whatever its key
MonthGroupOfAll(data, key) == data

\* the aggregate of one key: the values pushed for it, in order
MonthGroup(data, key) == SelectSeq(data, LAMBDA point : MonthKey(point) = key)

\* one TimeSeriesData record
MonthRecord(data, key) ==
    Let(MonthGroup(data, key), LAMBDA group :
        [year |-> key[1], month |-> key[2],
         ndvi |-> Mean(MapSeq(group, LAMBDA point : point.NDVI)),
         temperature |-> Mean(MapSeq(group, LAMBDA point : point.tmean)),
         precipitation |-> Mean(MapSeq(group, LAMBDA point : point.pr)),
         vpd |-> Mean(MapSeq(group, LAMBDA point : point.vpd))])

\* a comparator that looks at the month alone
TimeCompareByMonth(a, b) == a.month - b.month

\* the comparator of timeSeries.sort
TimeCompare(a, b) == IF a.year # b.year THEN a.year - b.year ELSE a.month - b.month

\* x put into a sorted sequence after the last element that does not sort
\* after it (stable insertion)
InsertSorted(sorted, x) ==
    Let(Cardinality({i \in 1..Len(sorted) : TimeCompare(sorted[i], x) <= 0}), LAMBDA k :
        SubSeq(sorted, 1, k) \o <<x>> \o SubSeq(sorted, k + 1, Len(sorted)))

RECURSIVE SortByTime(_)
SortByTime(records) ==
    IF records = <<>> THEN <<>>
    ELSE Let(SortByTime(SubSeq(records, 1, Len(records) - 1)), LAMBDA sorted :
             InsertSorted(sorted, records[Len(records)]))

\* "Aggregate by month", "Convert to time series", "Sort by time"
Aggregate(data) ==
    Let(MonthKeysInOrder(data), LAMBDA keys :
        SortByTime(MapSeq(keys, LAMBDA key : MonthRecord(data, key))))

----------------------------------------------------------------------------
(* The chart's inputs and actions                                           *)

MaxRuns == 2

ChartPoint(lat, lon, year, month, ndvi, tmean, pr, vpd) ==
    [lat |-> lat, lon |-> lon, year |-> year, month |-> month,
     NDVI |-> ndvi, tmean |-> tmean, pr |-> pr, vpd |-> vpd]

\* the points the collection is made of: two next to (40, -75), one 0.7
\* degrees away, and three far from it
ChartPoints ==
    {ChartPoint(400, 0 - 750, 2020, 4, 65, 150, 1000, 50),
     ChartPoint(401, 0 - 751, 2020, 4, 55, 163, 800, 41),
     ChartPoint(403, 0 - 757, 2019, 12, 30, 21, 400, 20),
     ChartPoint(100, 100, 2020, 4, 20, 250, 30, 90),
     ChartPoint(550, 0 - 750, 2020, 1, 25, 0 - 30, 600, 10),
     ChartPoint(400, 0 - 950, 2019, 12, 35, 10, 500, 15)}

\* a run is a point repeated: once, or NearestK - 1 times
RunLengths == {1, NearestK - 1}

Replicate(x, n) == [i \in 1..n |-> x]

RECURSIVE ConcatAll(_)
ConcatAll(ss) == IF ss = <<>> THEN <<>> ELSE Head(ss) \o ConcatAll(Tail(ss))

\* the collections: up to MaxRuns runs
ChartCollections ==
    {ConcatAll(runs) :
        runs \in SeqsUpTo({Replicate(p, n) : p \in ChartPoints, n \in RunLengths}, MaxRuns)}

\* the clicked locations: (40, -75), (39.5, -75) and (0, 0)
ChartLocations ==
    {[lat |-> 400, lng |-> 0 - 750], [lat |-> 395, lng |-> 0 - 750], [lat |-> 0, lng |-> 0]}

\* the effect on [location, allBloomData]: either props are missing, or
\* processDataAsync runs to its setTimeout
ChartEffect ==
    /\ chartPc = "mounted"
    /\ IF Len(allBloomData) = 0
       THEN /\ timeSeriesData' = <<>>
            /\ dataSourceDistanceSq' = 0
            /\ isLoading' = FALSE
            /\ chartPc' = "shown"
            /\ UNCHANGED <<locationData, usedRadiusSq, timeSeries>>
       ELSE /\ \E sel \in {SelectLocationData(allBloomData, location)} :
                 /\ locationData' = sel.locationData
                 /\ usedRadiusSq' = sel.usedRadiusSq
                 /\ timeSeries' = Aggregate(sel.locationData)
            /\ isLoading' = TRUE
            /\ chartPc' = "waiting"
            /\ UNCHANGED <<timeSeriesData, dataSourceDistanceSq>>
    /\ UNCHANGED <<allBloomData, location>>
    /\ UNCHANGED otherThanChart

\* the setTimeout callback
ChartTimeout ==
    /\ chartPc = "waiting"
    /\ timeSeriesData' = timeSeries
    /\ dataSourceDistanceSq' = usedRadiusSq
    /\ isLoading' = FALSE
    /\ chartPc' = "shown"
    /\ UNCHANGED <<allBloomData, location, locationData, usedRadiusSq, timeSeries>>
    /\ UNCHANGED otherThanChart

\* no ingestion in this behaviour
CsvAbsent == csvText = <<>> /\ csvCall = "none" /\ CsvCallsIdle

InitChart ==
    /\ allBloomData \in ChartCollections
    /\ location \in ChartLocations
    /\ chartPc = "mounted" /\ locationData = <<>> /\ usedRadiusSq = 0
    /\ timeSeries = <<>> /\ timeSeriesData = <<>> /\ dataSourceDistanceSq = 0
    /\ isLoading = FALSE
    /\ CsvAbsent
    /\ SamplerAbsent
    /\ RegionAbsent
    /\ LaterAbsent

NextChart ==
    \/ ChartEffect
    \/ ChartTimeout

SpecChart == InitChart /\ [][NextChart]_vars

----------------------------------------------------------------------------
(* EarthGlobe: the bloom layer of the visualisation effect: the zoom tiers, *)
(* the time filter and the sampler.  A point is [id, label, NDVI]; id is    *)
(* its position in the region's array, NDVI is held in hundredths, so       *)
(* label * 1000 + NDVI * 100 is the integer label * 1000 + NDVI.            *)

\* the point cap of the tier of a camera height
MaxPointsPerRegion(cameraHeight) ==
    IF cameraHeight < 1000000 THEN 3000
    ELSE IF cameraHeight < 5000000 THEN 1500
    ELSE IF cameraHeight < 15000000 THEN 800
    ELSE 400

\* the marker size of the tier of a camera height
PixelSize(cameraHeight) ==
    IF cameraHeight < 1000000 THEN 8
    ELSE IF cameraHeight < 5000000 THEN 6
    ELSE IF cameraHeight < 15000000 THEN 5
    ELSE 4

\* returns all the data it is given, whatever the year and month
filterBloomDataByTime(data, requestedYear, requestedMonth) ==
    IF Len(data) = 0 THEN <<>> ELSE data

\* the date of the time slider when the effect runs
currentYear == 2024
currentMonth == 6

\* filteredData of a region: us-east goes through the time filter and its
\* fallbacks, the other regions are taken as they are
FilteredData(regionId, regionData) ==
    IF regionId = "us-east"
    THEN Let(filterBloomDataByTime(regionData, currentYear, currentMonth), LAMBDA first :
             IF Len(first) # 0 THEN first
             ELSE Let(filterBloomDataByTime(regionData, 2020, 4), LAMBDA second :
                  IF Len(second) # 0 THEN second
                  ELSE Let(filterBloomDataByTime(regionData, 2020, 1), LAMBDA data2020 :
                       IF Len(data2020) > 0 THEN data2020
                       ELSE SubSeq(regionData, 1, Min(1000, Len(regionData))))))
    ELSE regionData

\* a.label * 1000 + a.NDVI * 100
Priority(point) == point.label * 1000 + point.NDVI

\* a comparator that returns priorityA - priorityB
PriorityCompareAscending(priorityA, priorityB) == priorityA - priorityB

\* what the comparator returns: priorityB - priorityA; a sorts before b when
\* it is negative
PriorityCompare(priorityA, priorityB) == priorityB - priorityA

\* the priority that no priority of the data sorts before
FirstPriorityOf(data) ==
    Let({Priority(data[i]) : i \in 1..Len(data)}, LAMBDA scores :
        CHOOSE m \in scores : \A x \in scores : ~(PriorityCompare(x, m) < 0))

RECURSIVE SortByPriority(_)
\* [...filteredData].sort(comparator): stable, so the points of equal
\* priority keep their order
SortByPriority(data) ==
    IF Len(data) = 0 THEN <<>>
    ELSE Let(FirstPriorityOf(data), LAMBDA top :
             SelectSeq(data, LAMBDA point : Priority(point) = top)
               \o SortByPriority(SelectSeq(data, LAMBDA point : Priority(point) # top)))

\* Math.floor(maxPointsPerRegion * 0.7) and Math.floor(maxPointsPerRegion * 0.3)
TopShare(maxPoints) == (maxPoints * 7) \div 10
SampleShare(maxPoints) == (maxPoints * 3) \div 10

\* slice(k)
SliceFrom(s, k) == SubSeq(s, Min(k, Len(s)) + 1, Len(s))

\* a filter that keeps the elements at 0, 2, 4, ...
EverySecond(s) == [k \in 1..((Len(s) + 1) \div 2) |-> s[2 * (k - 1) + 1]]

\* filter((_, index) => index % 3 === 0): the elements at 0, 3, 6, ...
EveryThird(s) == [k \in 1..((Len(s) + 2) \div 3) |-> s[3 * (k - 1) + 1]]

\* the tail of the sample without its cap
RandomSampleUncapped(sortedData, maxPoints) ==
    EveryThird(SliceFrom(sortedData, TopShare(maxPoints)))

\* sortedData.slice(floor(0.7 max)).filter(every third).slice(0, floor(0.3 max))
RandomSample(sortedData, maxPoints) ==
    Slice0(EveryThird(SliceFrom(sortedData, TopShare(maxPoints))), SampleShare(maxPoints))

\* limitedData: the sample when there are more points than the cap, the
\* filtered data otherwise
LimitedData(filteredData, maxPoints) ==
    IF Len(filteredData) > maxPoints
    THEN Let(SortByPriority(filteredData), LAMBDA sortedData :
             Slice0(sortedData, TopShare(maxPoints)) \o RandomSample(sortedData, maxPoints))
    ELSE filteredData

\* the forEach callback for one region: skipped when the region or its
\* filtered data is empty, otherwise limitedData becomes point entities
ProcessRegion(regionId, regionData, maxPoints) ==
    IF Len(regionData) = 0 THEN [skipped |-> TRUE, limitedData |-> <<>>]
    ELSE Let(FilteredData(regionId, regionData), LAMBDA filteredData :
             IF Len(filteredData) = 0 THEN [skipped |-> TRUE, limitedData |-> <<>>]
             ELSE [skipped |-> FALSE, limitedData |-> LimitedData(filteredData, maxPoints)])

----------------------------------------------------------------------------
(* The bloom layer's inputs and action                                      *)

MaxBlocks == 2

\* a block is a kind of point repeated: peak bloom with NDVI 0.80 observed
\* in the month of the time slider, or no bloom with NDVI 0.30 observed in
\* April 2020
PointKinds ==
    {[label |-> 2, NDVI |-> 80, year |-> 2024, month |-> 6],
     [label |-> 0, NDVI |-> 30, year |-> 2020, month |-> 4]}

\* once, or as many times as the largest cap
BlockLengths == {1, 3000}

Blocks == {[kind |-> k, len |-> n] : k \in PointKinds, n \in BlockLengths}

RECURSIVE KindAt(_, _)
\* the kind of the i-th point of the blocks put end to end
KindAt(blocks, i) ==
    IF i <= Head(blocks).len THEN Head(blocks).kind
    ELSE KindAt(Tail(blocks), i - Head(blocks).len)

RECURSIVE TotalLen(_)
TotalLen(blocks) == IF blocks = <<>> THEN 0 ELSE Head(blocks).len + TotalLen(Tail(blocks))

RegionDataOf(blocks) ==
    [i \in 1..TotalLen(blocks) |->
        Let(KindAt(blocks, i), LAMBDA kind :
            [id |-> i, label |-> kind.label, NDVI |-> kind.NDVI,
             year |-> kind.year, month |-> kind.month])]

\* the regions' arrays: up to MaxBlocks blocks, one of them at most a long one
RegionDatasets ==
    {RegionDataOf(blocks) :
        blocks \in {bs \in SeqsUpTo(Blocks, MaxBlocks) :
                       Cardinality({i \in 1..Len(bs) : bs[i].len > 1}) <= 1}}

\* the arrays of at most MaxBlocks points
SmallDatasets == {d \in RegionDatasets : Len(d) <= MaxBlocks}

RegionIds == {"us-east", "north-america"}

\* the maps: one region with any array, or both regions with small arrays
BloomMaps ==
    {[r \in {id} |-> d] : id \in RegionIds, d \in RegionDatasets}
      \cup {[r \in RegionIds |-> IF r = "us-east" THEN d1 ELSE d2] :
               d1 \in SmallDatasets, d2 \in SmallDatasets}

\* camera heights on both sides of the tier thresholds
CameraHeights == {999999, 1000000, 4999999, 5000000, 14999999, 15000000}

\* the bloom branch of the visualisation effect: the tier, then every region
BloomLayerEffect ==
    /\ samplerPc = "stale"
    /\ maxPointsPerRegion' = MaxPointsPerRegion(currentCameraHeight)
    /\ pixelSize' = PixelSize(currentCameraHeight)
    /\ rendered' = [r \in DOMAIN globalBloomData |->
                       ProcessRegion(r, globalBloomData[r],
                                     MaxPointsPerRegion(currentCameraHeight))]
    /\ samplerPc' = "rendered"
    /\ UNCHANGED <<currentCameraHeight, globalBloomData>>
    /\ UNCHANGED otherThanSampler

InitSampler ==
    /\ currentCameraHeight \in CameraHeights
    /\ globalBloomData \in BloomMaps
    /\ samplerPc = "stale" /\ maxPointsPerRegion = 0 /\ pixelSize = 0
    /\ rendered = <<>>
    /\ CsvAbsent
    /\ ChartAbsent
    /\ RegionAbsent
    /\ LaterAbsent

NextSampler == BloomLayerEffect

SpecSampler == InitSampler /\ [][NextSampler]_vars

----------------------------------------------------------------------------
(* dataAvailability: the Americas region resolver.  Latitudes and           *)
(* longitudes are JavaScript numbers in tenths of a degree.                 *)

\* a >= b and a <= b of JavaScript: false when either side is NaN
Ge(a, b) == ~a.nan /\ ~b.nan /\ a.v >= b.v
Le(a, b) == ~a.nan /\ ~b.nan /\ a.v <= b.v

\* the outcome of a call that returns a value
Returned(value) == [threw |-> FALSE, returned |-> value]

\* a resolver that rejects NaN with a RangeError
isWithinAmericasRegionOrThrow(lat, lon) ==
    IF isNaN(lat) \/ isNaN(lon) THEN [threw |-> TRUE, returned |-> FALSE]
    ELSE Returned(Ge(lat, Num(0 - 600)) /\ Le(lat, Num(850))
                    /\ Ge(lon, Num(0 - 1700)) /\ Le(lon, Num(0 - 300)))

\* isWithinAmericasRegion: the rectangle, then the eastern-Atlantic exclusion
isWithinAmericasRegion(lat, lon) ==
    Let(Ge(lat, Num(0 - 600)) /\ Le(lat, Num(850))
          /\ Ge(lon, Num(0 - 1700)) /\ Le(lon, Num(0 - 300)), LAMBDA withinBasicBounds :
        IF ~withinBasicBounds THEN Returned(FALSE)
        ELSE IF Gt(lat, Num(100)) /\ Lt(lat, Num(200))
                  /\ Gt(lon, Num(0 - 300)) /\ Lt(lon, Num(0 - 200))
        THEN Returned(FALSE)
        ELSE Returned(TRUE))

MaxCalls == 2

\* latitudes and longitudes on both sides of the rectangle's edges, inside
\* the exclusion's ranges, and NaN
RegionLats == {NaN, Num(0 - 601), Num(0 - 600), Num(150), Num(850), Num(851)}
RegionLons == {NaN, Num(0 - 1701), Num(0 - 1700), Num(0 - 300), Num(0 - 299), Num(0 - 250)}

\* one call of the resolver
CallIsWithinAmericasRegion ==
    /\ Len(regionCalls) < MaxCalls
    /\ \E lat \in RegionLats, lon \in RegionLons :
          regionCalls' = Append(regionCalls,
                                [lat |-> lat, lon |-> lon,
                                 outcome |-> isWithinAmericasRegion(lat, lon)])
    /\ UNCHANGED otherThanRegion

InitRegion ==
    /\ regionCalls = <<>>
    /\ CsvAbsent
    /\ ChartAbsent
    /\ SamplerAbsent
    /\ LaterAbsent

NextRegion == CallIsWithinAmericasRegion

SpecRegion == InitRegion /\ [][NextRegion]_vars

----------------------------------------------------------------------------
(* dataAvailability: checkDataCoverage.  Distances are held squared, in     *)
(* tenths of a degree squared; a distance is [nan, inf, sq].                *)

Infinity == [nan |-> FALSE, inf |-> TRUE, sq |-> 0]

\* calculateDistance: Math.sqrt(dLat * dLat + dLon * dLon), NaN when a
\* coordinate is NaN
calculateDistance(lat1, lon1, lat2, lon2) ==
    IF isNaN(lat1) \/ isNaN(lon1) \/ isNaN(lat2) \/ isNaN(lon2)
    THEN [nan |-> TRUE, inf |-> FALSE, sq |-> 0]
    ELSE [nan |-> FALSE, inf |-> FALSE,
          sq |-> (lat1.v - lat2.v) * (lat1.v - lat2.v) + (lon1.v - lon2.v) * (lon1.v - lon2.v)]

\* distance < minDistance
DistanceLt(distance, minDistance) ==
    /\ ~distance.nan /\ ~minDistance.nan
    /\ ~distance.inf
    /\ minDistance.inf \/ distance.sq < minDistance.sq

\* a threshold of 10 degrees whatever the region
CoverageThresholdLenient(region) == 100

\* region === 'americas' ? 5.0 : 10.0, in tenths of a degree
CoverageThreshold(region) == IF region = "americas" THEN 50 ELSE 100

\* minDistance <= threshold
WithinThreshold(minDistance, threshold) ==
    ~minDistance.nan /\ ~minDistance.inf /\ minDistance.sq <= threshold * threshold

RECURSIVE NearestLoop(_, _, _, _, _)
\* the for loop over csvData from position i on
NearestLoop(targetLat, targetLon, csvData, i, acc) ==
    IF i > Len(csvData) THEN acc
    ELSE Let(calculateDistance(targetLat, targetLon, csvData[i].lat, csvData[i].lon),
             LAMBDA distance :
                 NearestLoop(targetLat, targetLon, csvData, i + 1,
                             IF DistanceLt(distance, acc.minDistance)
                             THEN [minDistance |-> distance, nearestPoint |-> csvData[i]]
                             ELSE acc))

checkDataCoverage(targetLat, targetLon, csvData) ==
    Let(IF isWithinAmericasRegion(targetLat, targetLon).returned
        THEN "americas" ELSE "outside_americas", LAMBDA region :
    Let(NearestLoop(targetLat, targetLon, csvData, 1,
                    [minDistance |-> Infinity, nearestPoint |-> Undefined]), LAMBDA found :
    Let(WithinThreshold(found.minDistance, CoverageThreshold(region)), LAMBDA withinRange :
    Let(region = "outside_americas" \/ ~withinRange, LAMBDA shouldUseFallback :
        [withinRange |-> withinRange,
         distance |-> found.minDistance,
         nearestPoint |-> found.nearestPoint,
         shouldUseFallback |-> shouldUseFallback,
         region |-> region,
         dataSource |-> IF shouldUseFallback THEN "nasa_power" ELSE "csv"]))))

MaxCsvPoints == 2

\* targets: Philadelphia, Paris, just south of the box, and a NaN latitude
CoverageTargets ==
    {[lat |-> Num(400), lon |-> Num(0 - 750)],
     [lat |-> Num(480), lon |-> Num(20)],
     [lat |-> Num(0 - 601), lon |-> Num(0 - 750)],
     [lat |-> NaN, lon |-> Num(0 - 750)]}

\* points: 5.0 and 5.1 degrees from Philadelphia, 7 degrees from Paris, on
\* the target south of the box, and one without a latitude
CoveragePoints ==
    {[lat |-> Num(430), lon |-> Num(0 - 710)],
     [lat |-> Num(400), lon |-> Num(0 - 699)],
     [lat |-> Num(480), lon |-> Num(90)],
     [lat |-> Num(0 - 601), lon |-> Num(0 - 750)],
     [lat |-> NaN, lon |-> Num(0 - 750)]}

\* one call of checkDataCoverage
CallCheckDataCoverage ==
    /\ covPc = "idle"
    /\ covResult' = checkDataCoverage(covTarget.lat, covTarget.lon, covData)
    /\ covPc' = "returned"
    /\ UNCHANGED <<covTarget, covData>>
    /\ UNCHANGED otherThanCoverage

InitCoverage ==
    /\ covTarget \in CoverageTargets
    /\ covData \in SeqsUpTo(CoveragePoints, MaxCsvPoints)
    /\ covPc = "idle" /\ covResult = <<>>
    /\ CsvAbsent
    /\ ChartAbsent
    /\ SamplerAbsent
    /\ RegionAbsent
    /\ ServicesAbsent
    /\ RestAbsent

NextCoverage == CallCheckDataCoverage

SpecCoverage == InitCoverage /\ [][NextCoverage]_vars

----------------------------------------------------------------------------
(* AmericasDataService: the file cache, loadFile and the public methods     *)

MaxAsCalls == 2

\* dataInfo.northAmerica.files / southAmerica.files, a file being named by its
\* region and the years in its name.  The model keeps the first file of each
\* list (2015_2016); the four later ones differ from it in their years only.
AmericasFiles(region) ==
    << [region |-> region, startYear |-> 2015, endYear |-> 2016] >>

\* the cache keys `${region}_${fileName}`, one per file
AmericasKeys ==
    {AmericasFiles(region)[i] : region \in {"north", "south"}, i \in {1}}

\* null, where a file name is expected
NoFile == [region |-> "null", startYear |-> 0, endYear |-> 0]

\* getFileNameForYear: the first listed file whose year range holds the year
getFileNameForYear(region, year) ==
    Let(AmericasFiles(region), LAMBDA files :
        IF \E i \in 1..Len(files) : year >= files[i].startYear /\ year <= files[i].endYear
        THEN files[CHOOSE i \in 1..Len(files) :
                     /\ year >= files[i].startYear /\ year <= files[i].endYear
                     /\ \A j \in 1..(i - 1) :
                          ~(year >= files[j].startYear /\ year <= files[j].endYear)]
        ELSE NoFile)

\* new Map(): no key
EmptyCache == [k \in AmericasKeys |-> [has |-> FALSE, data |-> <<>>]]
EmptyLoadingStatus == [k \in AmericasKeys |-> "unset"]
NoPoints == [north |-> 0, south |-> 0]

\* this.cache.get(cacheKey) || []
CacheGetOrEmpty(cache, cacheKey) == IF cache[cacheKey].has THEN cache[cacheKey].data ELSE <<>>

\* a loadRegionData that loads the file whether or not its key is cached
NeedsLoadAlways(cache, cacheKey) == TRUE

\* if (!this.cache.has(cacheKey))
NeedsLoad(cache, cacheKey) == ~cache[cacheKey].has

\* allData.filter(point => point.year === year && point.month === month)
FilterYearMonth(allData, year, month) ==
    SelectSeq(allData, LAMBDA point : point.year = Num(year) /\ point.month = Num(month))

\* a loadFile without the loadingStatus test
AlreadyLoadingNever(loadingStatus, cacheKey) == FALSE

\* if (this.loadingStatus.get(cacheKey)): true only for a key set to true
AlreadyLoading(loadingStatus, cacheKey) == loadingStatus[cacheKey] = "true"

\* a fetch of the file is still in flight
InFlight(fetches, cacheKey) ==
    \E f \in 1..Len(fetches) : fetches[f].key = cacheKey /\ ~fetches[f].settled

\* loadFile up to its first await: an early return when the key is marked as
\* loading, else the mark is set and the fetch is issued
loadFile(cacheKey, owner, cache, loadingStatus, fetches) ==
    IF AlreadyLoading(loadingStatus, cacheKey)
    THEN [loadingStatus |-> loadingStatus, fetches |-> fetches, awaits |-> "nothing"]
    ELSE [loadingStatus |-> [loadingStatus EXCEPT ![cacheKey] = "true"],
          fetches |-> Append(fetches,
                        [key |-> cacheKey, owner |-> owner, settled |-> FALSE,
                         gotRows |-> FALSE, keyCached |-> cache[cacheKey].has,
                         inFlight |-> InFlight(fetches, cacheKey)]),
          awaits |-> "fetch"]

\* loadRegionData up to its first await or its return
loadRegionData(region, year, month, owner, cache, loadingStatus, fetches) ==
    Let(getFileNameForYear(region, year), LAMBDA fileName :
        IF fileName = NoFile
        THEN [pc |-> "gotRegion", key |-> NoFile, regionData |-> <<>>,
              loadingStatus |-> loadingStatus, fetches |-> fetches]
        ELSE IF NeedsLoad(cache, fileName)
        THEN Let(loadFile(fileName, owner, cache, loadingStatus, fetches), LAMBDA r :
                 [pc |-> IF r.awaits = "fetch" THEN "awaitFetch" ELSE "afterLoadFile",
                  key |-> fileName, regionData |-> <<>>,
                  loadingStatus |-> r.loadingStatus, fetches |-> r.fetches])
        ELSE [pc |-> "gotRegion", key |-> fileName,
              regionData |-> FilterYearMonth(CacheGetOrEmpty(cache, fileName), year, month),
              loadingStatus |-> loadingStatus, fetches |-> fetches])

\* the regions loadAmericasData visits, in order
RegionsOf(region) ==
    CASE region = "north" -> <<"north">>
      [] region = "south" -> <<"south">>
      [] OTHER -> <<"north", "south">>

\* getDataForViewport's choice of region
ViewportRegion(bounds) ==
    Let(bounds.maxLat > 150 /\ bounds.minLon < 0 - 500, LAMBDA loadNorth :
    Let(bounds.minLat < 150 /\ bounds.minLon < 0 - 300, LAMBDA loadSouth :
        IF loadNorth /\ ~loadSouth THEN "north"
        ELSE IF ~loadNorth /\ loadSouth THEN "south"
        ELSE "both"))

\* getDataForViewport's final filter
InViewport(allData, bounds) ==
    SelectSeq(allData, LAMBDA point :
        /\ ~point.lat.nan /\ ~point.lon.nan
        /\ point.lat.v >= bounds.minLat /\ point.lat.v <= bounds.maxLat
        /\ point.lon.v >= bounds.minLon /\ point.lon.v <= bounds.maxLon)

NoBounds == [minLat |-> 0, maxLat |-> 0, minLon |-> 0, maxLon |-> 0]

\* loadAmericasData from the head of call.todo on, up to the next await or to
\* the return; gives the call record and the maps as they are then
ContinueLoad(call, owner, cache, loadingStatus, fetches) ==
    IF call.todo = <<>>
    THEN [call |-> [call EXCEPT !.pc = "returned",
                                !.out = IF call.op = "getDataForViewport"
                                        THEN InViewport(call.results, call.bounds)
                                        ELSE call.results],
          loadingStatus |-> loadingStatus, fetches |-> fetches]
    ELSE Let(loadRegionData(Head(call.todo), call.year, call.month, owner,
                            cache, loadingStatus, fetches), LAMBDA r :
             [call |-> [call EXCEPT !.pc = r.pc, !.key = r.key, !.regionData = r.regionData],
              loadingStatus |-> r.loadingStatus, fetches |-> r.fetches])

NewCall(op, year, month, region, bounds) ==
    [op |-> op, year |-> year, month |-> month, region |-> region, bounds |-> bounds,
     todo |-> RegionsOf(region), pc |-> "called", key |-> NoFile,
     regionData |-> <<>>, results |-> <<>>, out |-> <<>>]

\* the inputs of the calls
\* a year of the first file, and a year no file holds
AmericasYears == {2015, 2030}
AmericasMonth == 4
AmericasRegions == {"north", "both"}
\* viewports (tenths of a degree) that select north and south
Viewports ==
    {[minLat |-> 200, maxLat |-> 500, minLon |-> 0 - 1000, maxLon |-> 0 - 600],
     [minLat |-> 0 - 300, maxLat |-> 100, minLon |-> 0 - 800, maxLon |-> 0 - 400]}

\* a row of a served file: the year of the file, April, a point of the region
AmericasServedRow(key) ==
    [i \in 1..Len(HeaderFull) |->
        CASE HeaderFull[i] = ColYear ->
                 <<"2", "0", "1", "5">>
          [] HeaderFull[i] = ColLat ->
                 IF key.region = "north" THEN <<"4", "0">> ELSE <<"-", "1", "0">>
          [] HeaderFull[i] = ColLon ->
                 IF key.region = "north" THEN <<"-", "7", "5">> ELSE <<"-", "6", "0">>
          [] OTHER -> CellFor(HeaderFull[i], <<>>, <<>>)]

\* how the fetch of a file can end: rejected, a non-2xx status, an empty body
\* (parseCSV throws on it), a header and one row
AmericasOutcomes == {"networkError", "httpError", "emptyBody", "rows"}

\* what the try block of loadFile leaves to cache: thrown, or the parsed data
LoadedData(key, outcome) ==
    CASE outcome = "rows" -> parseCSV(<<HeaderFull, AmericasServedRow(key), TrailingLine>>)
      [] outcome = "emptyBody" -> parseCSV(<<>>)
      [] OTHER -> [thrown |-> TRUE, data |-> <<>>]

\* totalPoints += data.length for the file's region
AddPoints(totalPoints, region, n) ==
    IF region = "north" THEN [totalPoints EXCEPT !.north = @ + n]
    ELSE [totalPoints EXCEPT !.south = @ + n]

AmericasCall == svcCall = "AmericasDataService"

\* a call of loadAmericasData(year, month, region), run to its first await
AsLoadAmericasData ==
    /\ AmericasCall
    /\ Len(asCalls) < MaxAsCalls
    /\ \E year \in AmericasYears, region \in AmericasRegions :
         \E r \in {ContinueLoad(NewCall("loadAmericasData", year, AmericasMonth, region, NoBounds),
                                Len(asCalls) + 1, asCache, asLoadingStatus, asFetches)} :
            /\ asCalls' = Append(asCalls, r.call)
            /\ asLoadingStatus' = r.loadingStatus
            /\ asFetches' = r.fetches
    /\ UNCHANGED <<svcCall, asCache, asTotalPoints>>
    /\ UNCHANGED otherThanAmericas

\* a call of getDataForViewport(bounds, year, month), run to its first await
AsGetDataForViewport ==
    /\ AmericasCall
    /\ Len(asCalls) < MaxAsCalls
    /\ \E year \in AmericasYears, bounds \in Viewports :
         \E r \in {ContinueLoad(NewCall("getDataForViewport", year, AmericasMonth,
                                        ViewportRegion(bounds), bounds),
                                Len(asCalls) + 1, asCache, asLoadingStatus, asFetches)} :
            /\ asCalls' = Append(asCalls, r.call)
            /\ asLoadingStatus' = r.loadingStatus
            /\ asFetches' = r.fetches
    /\ UNCHANGED <<svcCall, asCache, asTotalPoints>>
    /\ UNCHANGED otherThanAmericas

\* loadRegionData resumes after await this.loadFile(...): it reads the cache
\* and returns the filtered points
AsAfterLoadFile ==
    /\ AmericasCall
    /\ \E c \in 1..Len(asCalls) :
         /\ asCalls[c].pc = "afterLoadFile"
         /\ asCalls' = [asCalls EXCEPT
                ![c].pc = "gotRegion",
                ![c].regionData = FilterYearMonth(CacheGetOrEmpty(asCache, asCalls[c].key),
                                                  asCalls[c].year, asCalls[c].month)]
    /\ UNCHANGED <<svcCall, asCache, asLoadingStatus, asTotalPoints, asFetches>>
    /\ UNCHANGED otherThanAmericas

\* loadAmericasData resumes after await this.loadRegionData(...): it keeps the
\* points and goes on to the next region or returns
AsGotRegion ==
    /\ AmericasCall
    /\ \E c \in 1..Len(asCalls) :
         /\ asCalls[c].pc = "gotRegion"
         /\ \E r \in {ContinueLoad([asCalls[c] EXCEPT
                                       !.results = @ \o asCalls[c].regionData,
                                       !.todo = Tail(@)],
                                   c, asCache, asLoadingStatus, asFetches)} :
              /\ asCalls' = [asCalls EXCEPT ![c] = r.call]
              /\ asLoadingStatus' = r.loadingStatus
              /\ asFetches' = r.fetches
    /\ UNCHANGED <<svcCall, asCache, asTotalPoints>>
    /\ UNCHANGED otherThanAmericas

\* the fetches a call issued that are still in flight, f left aside
OtherPendingOf(fetches, owner, f) ==
    \E g \in 1..Len(fetches) : g # f /\ fetches[g].owner = owner /\ ~fetches[g].settled

\* the rest of loadFile once its fetch has settled: the try block caches the
\* parsed data and adds to totalPoints, the catch block caches [], the finally
\* block sets the loading mark to false; the call that awaited it resumes
AsLoadFileSettles ==
    /\ AmericasCall
    /\ \E f \in 1..Len(asFetches), outcome \in AmericasOutcomes :
         /\ ~asFetches[f].settled
         /\ \E r \in {LoadedData(asFetches[f].key, outcome)} :
              /\ asCache' = [asCache EXCEPT ![asFetches[f].key] =
                                [has |-> TRUE, data |-> IF r.thrown THEN <<>> ELSE r.data]]
              /\ asTotalPoints' = IF r.thrown THEN asTotalPoints
                                  ELSE AddPoints(asTotalPoints, asFetches[f].key.region,
                                                 Len(r.data))
         /\ asLoadingStatus' = [asLoadingStatus EXCEPT ![asFetches[f].key] = "false"]
         /\ asFetches' = [asFetches EXCEPT ![f].settled = TRUE,
                                           ![f].gotRows = (outcome = "rows")]
         /\ asCalls' = [asCalls EXCEPT ![asFetches[f].owner].pc =
                           IF asCalls[asFetches[f].owner].op = "preloadAllData"
                           THEN (IF OtherPendingOf(asFetches, asFetches[f].owner, f)
                                 THEN "awaitAll" ELSE "returned")
                           ELSE "afterLoadFile"]
    /\ UNCHANGED svcCall
    /\ UNCHANGED otherThanAmericas

\* allFiles of preloadAllData: the north files, then the south files
AllFiles == AmericasFiles("north") \o AmericasFiles("south")

RECURSIVE LoadEach(_, _, _, _, _, _)
\* allFiles.map(fileName => this.loadFile(region, fileName)), files 1..n
LoadEach(files, n, owner, cache, loadingStatus, fetches) ==
    IF n = 0 THEN [loadingStatus |-> loadingStatus, fetches |-> fetches]
    ELSE Let(LoadEach(files, n - 1, owner, cache, loadingStatus, fetches), LAMBDA before :
             loadFile(files[n], owner, cache, before.loadingStatus, before.fetches))

\* a call of preloadAllData, run to await Promise.all(loadPromises)
AsPreloadAllData ==
    /\ AmericasCall
    /\ Len(asCalls) < MaxAsCalls
    /\ \E r \in {LoadEach(AllFiles, Len(AllFiles), Len(asCalls) + 1,
                          asCache, asLoadingStatus, asFetches)} :
         /\ asLoadingStatus' = r.loadingStatus
         /\ asFetches' = r.fetches
         /\ asCalls' = Append(asCalls,
               [NewCall("preloadAllData", 0, 0, "both", NoBounds) EXCEPT
                   !.todo = <<>>,
                   !.pc = IF Len(r.fetches) > Len(asFetches) THEN "awaitAll" ELSE "returned"])
    /\ UNCHANGED <<svcCall, asCache, asTotalPoints>>
    /\ UNCHANGED otherThanAmericas

RECURSIVE CachedPoints(_, _)
\* this.cache.forEach(data => totalCachedPoints += data.length)
CachedPoints(cache, keys) ==
    IF keys = {} THEN 0
    ELSE Let(CHOOSE k \in keys : TRUE, LAMBDA k :
             (IF cache[k].has THEN Len(cache[k].data) ELSE 0) + CachedPoints(cache, keys \ {k}))

\* getStatistics()
AsGetStatistics ==
    /\ AmericasCall
    /\ Len(asCalls) < MaxAsCalls
    /\ asCalls' = Append(asCalls,
          [NewCall("getStatistics", 0, 0, "both", NoBounds) EXCEPT
              !.todo = <<>>, !.pc = "returned",
              !.out = [cachedFiles |-> Cardinality({k \in AmericasKeys : asCache[k].has}),
                       totalCachedPoints |-> CachedPoints(asCache, AmericasKeys),
                       totalPoints |-> asTotalPoints]])
    /\ UNCHANGED <<svcCall, asCache, asLoadingStatus, asTotalPoints, asFetches>>
    /\ UNCHANGED otherThanAmericas

\* clearCache()
AsClearCache ==
    /\ AmericasCall
    /\ Len(asCalls) < MaxAsCalls
    /\ asCache' = EmptyCache
    /\ asLoadingStatus' = EmptyLoadingStatus
    /\ asTotalPoints' = NoPoints
    /\ asCalls' = Append(asCalls,
          [NewCall("clearCache", 0, 0, "both", NoBounds) EXCEPT !.todo = <<>>, !.pc = "returned"])
    /\ UNCHANGED <<svcCall, asFetches>>
    /\ UNCHANGED otherThanAmericas

\* the singleton as constructed
AmericasConstructed ==
    /\ asCache = EmptyCache /\ asLoadingStatus = EmptyLoadingStatus
    /\ asTotalPoints = NoPoints /\ asCalls = <<>> /\ asFetches = <<>>

----------------------------------------------------------------------------
(* HerbariumService: loadData, fetchData, loadIUCNData, clear               *)

MaxHbCalls == 3

\* the specimen records of /herbarium/processed_data_final_augmented.json
Specimens == <<"specimen1", "specimen2">>

\* how the fetch of the specimen file can end: rejected, a non-2xx status, a
\* body that is no JSON, a JSON array, an object with a records array, an
\* object without one
HerbariumOutcomes ==
    {"networkError", "httpError", "invalidJson", "array", "recordsObject", "otherObject"}

\* fetchData after its fetch has settled: it throws, or returns
\* Array.isArray(jsonData) ? jsonData : jsonData.records ?? []
fetchData(outcome) ==
    CASE outcome = "array" -> [thrown |-> FALSE, data |-> Specimens]
      [] outcome = "recordsObject" -> [thrown |-> FALSE, data |-> Specimens]
      [] outcome = "otherObject" -> [thrown |-> FALSE, data |-> <<>>]
      [] OTHER -> [thrown |-> TRUE, data |-> <<>>]

\* how the fetch of /herbarium/iucn_analysis.json can end: rejected, a non-2xx
\* status, the analysis object, a JSON object without endangered_species
IucnOutcomes == {"networkError", "httpError", "analysis", "malformed"}

\* a fetch of the url is still in flight
HbInFlight(fetches, url) ==
    \E f \in 1..Len(fetches) : fetches[f].url = url /\ ~fetches[f].settled

HbFetch(url, owner, fetches) ==
    [url |-> url, owner |-> owner, settled |-> FALSE, outcome |-> "pending",
     inFlight |-> HbInFlight(fetches, url)]

HbCallRecord(op, pc, fetch, out) == [op |-> op, pc |-> pc, fetch |-> fetch, out |-> out]

\* if (this.isLoading && this.loadPromise)
SharesLoad(loading, loadPromise) == loading /\ loadPromise # 0

HerbariumCall == svcCall = "HerbariumService"

\* a call of loadData(), run to its return or to its await
HbLoadData ==
    /\ HerbariumCall
    /\ Len(hbCalls) < MaxHbCalls
    /\ IF hbIsLoaded
       THEN /\ hbCalls' = Append(hbCalls, HbCallRecord("loadData", "resolved", 0, hbData))
            /\ UNCHANGED <<hbIsLoading, hbLoadPromise, hbFetches>>
       ELSE IF SharesLoad(hbIsLoading, hbLoadPromise)
       THEN /\ hbCalls' = Append(hbCalls,
                             HbCallRecord("loadData", "awaitShared", hbLoadPromise, <<>>))
            /\ UNCHANGED <<hbIsLoading, hbLoadPromise, hbFetches>>
       ELSE /\ hbIsLoading' = TRUE
            /\ hbFetches' = Append(hbFetches, HbFetch("data", Len(hbCalls) + 1, hbFetches))
            /\ hbLoadPromise' = Len(hbFetches) + 1
            /\ hbCalls' = Append(hbCalls,
                             HbCallRecord("loadData", "awaitFetch", Len(hbFetches) + 1, <<>>))
    /\ UNCHANGED <<svcCall, hbData, hbIsLoaded, hbIucnData, hbIucnLoaded>>
    /\ UNCHANGED otherThanHerbarium

\* what a call of loadData becomes when the fetchData promise f settles: the
\* call that awaits it returns this.data or rethrows, a call that was handed
\* the promise settles as the promise does
LoadDataSettled(call, f, r) ==
    IF call.op = "loadData" /\ call.fetch = f /\ call.pc \in {"awaitFetch", "awaitShared"}
    THEN [call EXCEPT !.pc = IF r.thrown THEN "rejected" ELSE "resolved", !.out = r.data]
    ELSE call

\* the fetchData promise of a loadData call settles: the try block stores the
\* data and sets isLoaded, the catch block resets isLoading and loadPromise
\* and rethrows
HbLoadDataSettles ==
    /\ HerbariumCall
    /\ \E f \in 1..Len(hbFetches), outcome \in HerbariumOutcomes :
         /\ hbFetches[f].url = "data" /\ ~hbFetches[f].settled
         /\ \E r \in {fetchData(outcome)} :
              /\ hbCalls' = [c \in 1..Len(hbCalls) |-> LoadDataSettled(hbCalls[c], f, r)]
              /\ IF r.thrown
                 THEN /\ hbIsLoading' = FALSE
                      /\ hbLoadPromise' = 0
                      /\ UNCHANGED <<hbData, hbIsLoaded>>
                 ELSE /\ hbData' = r.data
                      /\ hbIsLoaded' = TRUE
                      /\ UNCHANGED <<hbIsLoading, hbLoadPromise>>
         /\ hbFetches' = [hbFetches EXCEPT ![f].settled = TRUE, ![f].outcome = outcome]
    /\ UNCHANGED <<svcCall, hbIucnData, hbIucnLoaded>>
    /\ UNCHANGED otherThanHerbarium

\* a call of loadIUCNData(), run to its return or to its await
HbLoadIUCNData ==
    /\ HerbariumCall
    /\ Len(hbCalls) < MaxHbCalls
    /\ IF hbIucnLoaded /\ hbIucnData # "null"
       THEN /\ hbCalls' = Append(hbCalls, HbCallRecord("loadIUCNData", "resolved", 0, hbIucnData))
            /\ UNCHANGED hbFetches
       ELSE /\ hbFetches' = Append(hbFetches, HbFetch("iucn", Len(hbCalls) + 1, hbFetches))
            /\ hbCalls' = Append(hbCalls,
                             HbCallRecord("loadIUCNData", "awaitFetch", Len(hbFetches) + 1, "null"))
    /\ UNCHANGED <<svcCall, hbData, hbIsLoaded, hbIsLoading, hbLoadPromise,
                   hbIucnData, hbIucnLoaded>>
    /\ UNCHANGED otherThanHerbarium

\* the fetch of a loadIUCNData call settles: the try block stores the JSON,
\* sets iucnLoaded and logs Object.keys(iucnData.endangered_species), which
\* throws on an object without that member; the catch block rethrows
HbLoadIUCNDataSettles ==
    /\ HerbariumCall
    /\ \E f \in 1..Len(hbFetches), outcome \in IucnOutcomes :
         /\ hbFetches[f].url = "iucn" /\ ~hbFetches[f].settled
         /\ IF outcome \in {"analysis", "malformed"}
            THEN /\ hbIucnData' = outcome
                 /\ hbIucnLoaded' = TRUE
            ELSE UNCHANGED <<hbIucnData, hbIucnLoaded>>
         /\ hbCalls' = [hbCalls EXCEPT
                ![hbFetches[f].owner].pc = IF outcome = "analysis" THEN "resolved" ELSE "rejected",
                ![hbFetches[f].owner].out = IF outcome = "analysis" THEN outcome ELSE "null"]
         /\ hbFetches' = [hbFetches EXCEPT ![f].settled = TRUE, ![f].outcome = outcome]
    /\ UNCHANGED <<svcCall, hbData, hbIsLoaded, hbIsLoading, hbLoadPromise>>
    /\ UNCHANGED otherThanHerbarium

\* clear()
HbClear ==
    /\ HerbariumCall
    /\ Len(hbCalls) < MaxHbCalls
    /\ hbData' = <<>> /\ hbIsLoaded' = FALSE /\ hbIsLoading' = FALSE /\ hbLoadPromise' = 0
    /\ hbIucnData' = "null" /\ hbIucnLoaded' = FALSE
    /\ hbCalls' = Append(hbCalls, HbCallRecord("clear", "returned", 0, <<>>))
    /\ UNCHANGED <<svcCall, hbFetches>>
    /\ UNCHANGED otherThanHerbarium

\* the singleton as constructed: the same values as when it is not used
HerbariumConstructed == HerbariumAbsent

----------------------------------------------------------------------------
(* getLocationData and the NASA POWER fallback it calls                     *)

\* csvText.trim().split('\n'): leading and trailing blank lines go, and the
\* empty text gives one empty line
RECURSIVE DropLeadingBlank(_)
DropLeadingBlank(text) ==
    IF text # <<>> /\ LineIsBlank(Head(text)) THEN DropLeadingBlank(Tail(text)) ELSE text
RECURSIVE DropTrailingBlank(_)
DropTrailingBlank(text) ==
    IF text # <<>> /\ LineIsBlank(text[Len(text)])
    THEN DropTrailingBlank(SubSeq(text, 1, Len(text) - 1)) ELSE text
TrimmedLines(text) ==
    Let(DropTrailingBlank(DropLeadingBlank(text)), LAMBDA lines :
        IF lines = <<>> THEN << <<<<>>>> >> ELSE lines)

\* the object pushed for a row inside the 0.1 degree window
LocationRowPoint(values, headers) ==
    [lat |-> ParseFloat(At(values, IndexOf(headers, ColLat))),
     lon |-> ParseFloat(At(values, IndexOf(headers, ColLon))),
     tmean |-> ParseFloat(At(values, IndexOf(headers, ColTmean))),
     pr |-> ParseFloat(At(values, IndexOf(headers, ColPr))),
     NDVI |-> ParseFloat(At(values, IndexOf(headers, ColNDVI))),
     label |-> OrDefault(ParseInt(At(values, IndexOf(headers, ColLabel))), Num(0)),
     month |-> ParseInt(At(values, IndexOf(headers, ColMonth))),
     year |-> ParseInt(At(values, IndexOf(headers, ColYear))),
     srad |-> ParseFloat(At(values, IndexOf(headers, ColSrad))),
     soil |-> ParseFloat(At(values, IndexOf(headers, ColSoil))),
     AGDD |-> OrDefault(ParseFloat(At(values, IndexOf(headers, ColGDDm))), Num(0))]

\* lat >= targetLat - 0.1 && lat <= targetLat + 0.1 && the same for lon
InWindow(point, target) ==
    /\ Ge(point.lat, Num(target.lat.v - 1)) /\ Le(point.lat, Num(target.lat.v + 1))
    /\ Ge(point.lon, Num(target.lon.v - 1)) /\ Le(point.lon, Num(target.lon.v + 1))

RECURSIVE LocationLoop(_, _, _)
\* the row loop over lines 2..n: the rows of the window, in order
LocationLoop(lines, n, target) ==
    IF n <= 1 THEN <<>>
    ELSE Let(LocationLoop(lines, n - 1, target), LAMBDA before :
         Let(LocationRowPoint(lines[n], lines[1]), LAMBDA point :
             IF Len(lines[n]) = Len(lines[1]) /\ InWindow(point, target)
             THEN Append(before, point) ELSE before))

\* findNearestPoint
findNearestPoint(lat, lon, points) ==
    NearestLoop(lat, lon, points, 1,
                [minDistance |-> Infinity, nearestPoint |-> points[1]]).nearestPoint

\* the try block over the CSV text: the csv result (its confidence member
\* left out), or nothing returned
CsvAnswer(text, target) ==
    Let(TrimmedLines(text), LAMBDA lines :
    Let(LocationLoop(lines, Len(lines), target), LAMBDA americasData :
        IF Len(americasData) > 0
        THEN Let(findNearestPoint(target.lat, target.lon, americasData), LAMBDA nearestPoint :
             Let(calculateDistance(target.lat, target.lon, nearestPoint.lat, nearestPoint.lon),
                 LAMBDA distance :
                 IF WithinThreshold(distance, 50)
                 THEN [returns |-> TRUE,
                       result |-> [source |-> "csv", data |-> nearestPoint,
                                   coverage |-> [withinRange |-> TRUE, distance |-> distance,
                                                 shouldUseFallback |-> FALSE,
                                                 region |-> "americas", dataSource |-> "csv"],
                                   bloomAvailable |-> TRUE]]
                 ELSE [returns |-> FALSE, result |-> <<>>]))
        ELSE [returns |-> FALSE, result |-> <<>>]))

\* how a fetch of the NASA POWER API can end: the JSON, rejected, a non-2xx
\* status, a JSON without properties.parameter
NasaOutcomes == {"ok", "networkError", "httpError", "malformed"}

\* fetchClimateData: the API's values, or the mock values of its catch block
fetchClimateData(outcome) == IF outcome = "ok" THEN "api" ELSE "mock"

\* fetchNDVIData: an estimate from the climate data it fetches itself
fetchNDVIData(outcome) == [ndvi |-> "estimated", from |-> fetchClimateData(outcome)]

\* fetchLocationData: Promise.all of the two, neither of which rejects
fetchLocationData(climateOutcome, ndviOutcome) ==
    [rejected |-> FALSE,
     data |-> [climate |-> fetchClimateData(climateOutcome),
               ndvi |-> fetchNDVIData(ndviOutcome)]]

\* targets: Philadelphia, a tenth of a degree off it, and Paris
LocationTargets ==
    {[lat |-> Num(400), lon |-> Num(0 - 750)],
     [lat |-> Num(401), lon |-> Num(0 - 751)],
     [lat |-> Num(480), lon |-> Num(20)]}

\* how the fetch of the NorthAmerica file can end: rejected, a non-2xx status
\* (its body is read all the same), an empty file, a file with a row at
\* Philadelphia, a file with a row elsewhere
LocationCsvOutcomes == {"networkError", "httpError", "empty", "near", "far"}

LocationCsvText(outcome) ==
    CASE outcome = "httpError" -> ErrorBody
      [] outcome = "empty" -> <<>>
      [] outcome = "near" ->
           <<HeaderFull, AmericasServedRow(AmericasFiles("north")[1]), TrailingLine>>
      [] outcome = "far" ->
           <<HeaderFull, AmericasServedRow(AmericasFiles("south")[1]), TrailingLine>>

LocationCall == svcCall = "getLocationData"

RegionOfTarget(target) ==
    IF isWithinAmericasRegion(target.lat, target.lon).returned
    THEN "americas" ELSE "outside_americas"

\* the call, up to its first await: the CSV fetch for a target in the
\* Americas, the NASA POWER fallback otherwise
GlGetLocationData ==
    /\ LocationCall
    /\ glPc = "idle"
    /\ \E target \in LocationTargets :
         /\ glTarget' = target
         /\ glPc' = IF RegionOfTarget(target) = "americas" THEN "awaitCsv" ELSE "awaitNasa"
    /\ UNCHANGED <<svcCall, glResult, glLog>>
    /\ UNCHANGED otherThanLocation

\* the CSV fetch settles: the csv result is returned, or (nothing near, or the
\* catch block) the call goes on to the fallback
GlCsvSettles ==
    /\ LocationCall
    /\ glPc = "awaitCsv"
    /\ \E outcome \in LocationCsvOutcomes :
         /\ glLog' = Append(glLog, outcome)
         /\ IF outcome = "networkError"
            THEN /\ glPc' = "awaitNasa"
                 /\ UNCHANGED glResult
            ELSE \E r \in {CsvAnswer(LocationCsvText(outcome), glTarget)} :
                    IF r.returns
                    THEN glPc' = "resolved" /\ glResult' = r.result
                    ELSE glPc' = "awaitNasa" /\ UNCHANGED glResult
    /\ UNCHANGED <<svcCall, glTarget>>
    /\ UNCHANGED otherThanLocation

\* fetchLocationData settles: the nasa_power result is returned; were it to
\* reject, the catch block would throw 'No data available for location'
GlNasaSettles ==
    /\ LocationCall
    /\ glPc = "awaitNasa"
    /\ \E climateOutcome \in NasaOutcomes, ndviOutcome \in NasaOutcomes :
         \E r \in {fetchLocationData(climateOutcome, ndviOutcome)} :
            /\ glLog' = glLog \o <<climateOutcome, ndviOutcome>>
            /\ IF r.rejected
               THEN glPc' = "rejected" /\ UNCHANGED glResult
               ELSE /\ glPc' = "resolved"
                    /\ glResult' = [source |-> "nasa_power", data |-> r.data,
                                    coverage |-> [withinRange |-> FALSE, distance |-> Infinity,
                                                  shouldUseFallback |-> TRUE,
                                                  region |-> RegionOfTarget(glTarget),
                                                  dataSource |-> "nasa_power"],
                                    bloomAvailable |-> FALSE]
    /\ UNCHANGED <<svcCall, glTarget>>
    /\ UNCHANGED otherThanLocation

\* before the call
LocationIdle ==
    /\ glTarget = <<>> /\ glPc = "idle" /\ glResult = <<>> /\ glLog = <<>>

----------------------------------------------------------------------------
(* satelliteService: fetchTLEFromCelesTrak and fetchMultipleTLE             *)

MaxSatellites == 2

\* NORAD ids: the ISS and Aqua
SatelliteIds == {25544, 27424}

\* a TLE line as served for a satellite by a source
TleLine(n, noradId, from) == <<n, noradId, from>>

NoTle == [null |-> TRUE, tle1 |-> <<>>, tle2 |-> <<>>]

\* how the request to tle.ivanstanojevic.me can end: data with line1 and
\* line2, data lacking a line, rejected, a non-2xx status (axios rejects)
PrimaryTleOutcomes == {"lines", "incomplete", "networkError", "httpError"}

\* how the request to celestrak.org can end: a text of three lines, a shorter
\* text, data that is no string, rejected, a non-2xx status
FallbackTleOutcomes == {"threeLines", "short", "notText", "networkError", "httpError"}

\* the try block after the primary request: the two lines, null, or (the
\* request failed) the catch block is entered
PrimaryTle(noradId, outcome) ==
    CASE outcome = "lines" ->
             [caught |-> FALSE,
              tle |-> [null |-> FALSE, tle1 |-> TleLine(1, noradId, "alternative"),
                       tle2 |-> TleLine(2, noradId, "alternative")]]
      [] outcome = "incomplete" -> [caught |-> FALSE, tle |-> NoTle]
      [] OTHER -> [caught |-> TRUE, tle |-> NoTle]

\* the catch block after the fallback request: lines[1] and lines[2] of a text
\* of three lines or more, else null (the inner catch swallows every error)
FallbackTle(noradId, outcome) ==
    IF outcome = "threeLines"
    THEN [null |-> FALSE, tle1 |-> TleLine(1, noradId, "celestrak"),
          tle2 |-> TleLine(2, noradId, "celestrak")]
    ELSE NoTle

EmptyTleMap == [id \in SatelliteIds |-> [has |-> FALSE, tle |-> NoTle]]

\* a batch in which a lookup that returns null empties the map
TleMapSetOrClear(tleMap, noradId, tle) ==
    IF tle.null THEN EmptyTleMap
    ELSE [tleMap EXCEPT ![noradId] = [has |-> TRUE, tle |-> tle]]

\* if (tle) { tleMap.set(noradId, tle); }
TleMapSet(tleMap, noradId, tle) ==
    IF tle.null THEN tleMap
    ELSE [tleMap EXCEPT ![noradId] = [has |-> TRUE, tle |-> tle]]

SatelliteCall == svcCall = "fetchMultipleTLE"

\* fetchMultipleTLE(noradIds), up to await Promise.all(promises): every
\* lookup has sent its primary request
StFetchMultipleTLE ==
    /\ SatelliteCall
    /\ stPc = "idle"
    /\ \E noradIds \in SeqsUpTo(SatelliteIds, MaxSatellites) :
         stLookups' = [i \in 1..Len(noradIds) |->
                          [noradId |-> noradIds[i], pc |-> "primary", tle |-> NoTle,
                           log |-> <<>>]]
    /\ stTleMap' = EmptyTleMap
    /\ stPc' = "awaitAll"
    /\ UNCHANGED svcCall
    /\ UNCHANGED otherThanSatellite

\* the primary request of a lookup settles; a lookup that returns is followed
\* by the map callback's tleMap.set
StPrimarySettles ==
    /\ SatelliteCall
    /\ \E i \in 1..Len(stLookups), outcome \in PrimaryTleOutcomes :
         /\ stLookups[i].pc = "primary"
         /\ \E r \in {PrimaryTle(stLookups[i].noradId, outcome)} :
              IF r.caught
              THEN /\ stLookups' = [stLookups EXCEPT ![i].pc = "fallback",
                                                    ![i].log = Append(@, outcome)]
                   /\ UNCHANGED stTleMap
              ELSE /\ stLookups' = [stLookups EXCEPT ![i].pc = "done", ![i].tle = r.tle,
                                                    ![i].log = Append(@, outcome)]
                   /\ stTleMap' = TleMapSet(stTleMap, stLookups[i].noradId, r.tle)
    /\ UNCHANGED <<svcCall, stPc>>
    /\ UNCHANGED otherThanSatellite

\* the fallback request of a lookup settles, and the map callback follows
StFallbackSettles ==
    /\ SatelliteCall
    /\ \E i \in 1..Len(stLookups), outcome \in FallbackTleOutcomes :
         /\ stLookups[i].pc = "fallback"
         /\ \E tle \in {FallbackTle(stLookups[i].noradId, outcome)} :
              /\ stLookups' = [stLookups EXCEPT ![i].pc = "done", ![i].tle = tle,
                                                ![i].log = Append(@, outcome)]
              /\ stTleMap' = TleMapSet(stTleMap, stLookups[i].noradId, tle)
    /\ UNCHANGED <<svcCall, stPc>>
    /\ UNCHANGED otherThanSatellite

\* Promise.all resolves, fetchMultipleTLE returns tleMap
StAllSettled ==
    /\ SatelliteCall
    /\ stPc = "awaitAll"
    /\ \A i \in 1..Len(stLookups) : stLookups[i].pc = "done"
    /\ stPc' = "resolved"
    /\ UNCHANGED <<svcCall, stLookups, stTleMap>>
    /\ UNCHANGED otherThanSatellite

\* before the call
SatelliteIdle == stLookups = <<>> /\ stTleMap = <<>> /\ stPc = "idle"

----------------------------------------------------------------------------
(* DataPanel: the effect that fetches the data of the selected location     *)

MaxRequests == 3

NullLocation == [null |-> TRUE, lat |-> 0, lng |-> 0]
\* Philadelphia and Paris
PanelLocations ==
    {[null |-> FALSE, lat |-> 400, lng |-> 0 - 750],
     [null |-> FALSE, lat |-> 480, lng |-> 20]}

\* useState<any>(null)
NoRealData == [null |-> TRUE, latitude |-> 0, longitude |-> 0, climate |-> "none"]

\* the value fetchLocationData resolves with for a location
RealDataFor(loc, r) ==
    [null |-> FALSE, latitude |-> loc.lat, longitude |-> loc.lng, climate |-> r.data.climate]

\* a then handler that drops the answer of a request that is not the latest
AppliesIfLatest(requests, r) == r = Len(requests)

\* the then and catch handlers run for whichever request settles: neither
\* tests the request against the current location, and the effect returns no
\* cleanup that would cancel it
Applies(requests, r) == TRUE

PanelCall == svcCall = "DataPanel"

\* the location prop changes in lat or lng and the effect runs: nothing for
\* null, else setLoading(true) and a fetchLocationData call
PnLocationChanges ==
    /\ PanelCall
    /\ Len(pnRequests) < MaxRequests
    /\ \E loc \in PanelLocations \cup {NullLocation} :
         /\ loc # pnLocation
         /\ pnLocation' = loc
         /\ IF loc.null
            THEN UNCHANGED <<pnLoading, pnRequests>>
            ELSE /\ pnLoading' = TRUE
                 /\ pnRequests' = Append(pnRequests,
                                    [location |-> loc, settled |-> FALSE, order |-> 0])
    /\ UNCHANGED <<svcCall, pnRealData>>
    /\ UNCHANGED otherThanPanel

\* the number of requests that have settled
SettledCount(requests) == Cardinality({r \in 1..Len(requests) : requests[r].settled})

\* a fetchLocationData promise settles and its handler runs: setRealData and
\* setLoading(false) when it resolves, setLoading(false) when it rejects
PnRequestSettles ==
    /\ PanelCall
    /\ \E r \in 1..Len(pnRequests), climateOutcome \in {"ok", "networkError"} :
         /\ ~pnRequests[r].settled
         /\ pnRequests' = [pnRequests EXCEPT ![r].settled = TRUE,
                                             ![r].order = SettledCount(pnRequests) + 1]
         /\ \E res \in {fetchLocationData(climateOutcome, climateOutcome)} :
              IF Applies(pnRequests, r)
              THEN /\ pnRealData' = IF res.rejected THEN pnRealData
                                    ELSE RealDataFor(pnRequests[r].location, res)
                   /\ pnLoading' = FALSE
              ELSE UNCHANGED <<pnRealData, pnLoading>>
    /\ UNCHANGED <<svcCall, pnLocation>>
    /\ UNCHANGED otherThanPanel

\* the panel as mounted without a location
PanelMounted ==
    /\ pnLocation = NullLocation /\ pnRealData = NoRealData
    /\ pnLoading = FALSE /\ pnRequests = <<>>

----------------------------------------------------------------------------
(* startTLEAutoUpdate: updateTLE is run at once and then by an hourly       *)
(* interval; the function returned clears the interval.  fetchMultipleTLE   *)
(* is taken as one request that resolves with the satellites it found.      *)

MaxUpdates == 3

AutoUpdateCall == svcCall = "startTLEAutoUpdate"

\* updateTLE up to await fetchMultipleTLE(noradIds)
UpdateStarted == [pc |-> "awaitTle", tleData |-> {}, intervalWhenCalledBack |-> "none"]

\* startTLEAutoUpdate(callback): updateTLE() and setInterval(updateTLE, 3600000)
AuStartTLEAutoUpdate ==
    /\ AutoUpdateCall
    /\ auInterval = "none"
    /\ auUpdates' = <<UpdateStarted>>
    /\ auInterval' = "active"
    /\ UNCHANGED svcCall
    /\ UNCHANGED otherThanAuto

\* an hour has passed: the interval runs updateTLE
AuIntervalFires ==
    /\ AutoUpdateCall
    /\ auInterval = "active"
    /\ Len(auUpdates) < MaxUpdates
    /\ auUpdates' = Append(auUpdates, UpdateStarted)
    /\ UNCHANGED <<svcCall, auInterval>>
    /\ UNCHANGED otherThanAuto

\* fetchMultipleTLE resolves with a map of the satellites found, and
\* updateTLE goes on to callback(tleData)
AuUpdateSettles ==
    /\ AutoUpdateCall
    /\ \E u \in 1..Len(auUpdates), found \in SUBSET SatelliteIds :
         /\ auUpdates[u].pc = "awaitTle"
         /\ auUpdates' = [auUpdates EXCEPT ![u] =
                [pc |-> "calledBack", tleData |-> found,
                 intervalWhenCalledBack |-> auInterval]]
    /\ UNCHANGED <<svcCall, auInterval>>
    /\ UNCHANGED otherThanAuto

\* the function startTLEAutoUpdate returned: clearInterval(interval)
AuCleanup ==
    /\ AutoUpdateCall
    /\ auInterval = "active"
    /\ auInterval' = "cleared"
    /\ UNCHANGED <<svcCall, auUpdates>>
    /\ UNCHANGED otherThanAuto

\* before the effect of EarthGlobe has called startTLEAutoUpdate
AutoUpdateIdle == auInterval = "none" /\ auUpdates = <<>>






InitServices ==
    /\ svcCall \in {"AmericasDataService", "HerbariumService", "getLocationData",
                    "fetchMultipleTLE", "DataPanel", "startTLEAutoUpdate"}
    /\ IF svcCall = "AmericasDataService" THEN AmericasConstructed ELSE AmericasAbsent
    /\ HerbariumConstructed
    /\ IF svcCall = "getLocationData" THEN LocationIdle ELSE LocationAbsent
    /\ IF svcCall = "fetchMultipleTLE" THEN SatelliteIdle ELSE SatelliteAbsent
    /\ IF svcCall = "DataPanel" THEN PanelMounted ELSE PanelAbsent
    /\ IF svcCall = "startTLEAutoUpdate" THEN AutoUpdateIdle ELSE AutoUpdateAbsent
    /\ CsvAbsent
    /\ ChartAbsent
    /\ SamplerAbsent
    /\ RegionAbsent
    /\ CoverageAbsent
    /\ RestAbsent

NextServices ==
    \/ AsLoadAmericasData
    \/ AsGetDataForViewport
    \/ AsAfterLoadFile
    \/ AsGotRegion
    \/ AsLoadFileSettles
    \/ AsPreloadAllData
    \/ AsGetStatistics
    \/ AsClearCache
    \/ HbLoadData
    \/ HbLoadDataSettles
    \/ HbLoadIUCNData
    \/ HbLoadIUCNDataSettles
    \/ HbClear
    \/ GlGetLocationData
    \/ GlCsvSettles
    \/ GlNasaSettles
    \/ StFetchMultipleTLE
    \/ StPrimarySettles
    \/ StFallbackSettles
    \/ StAllSettled
    \/ PnLocationChanges
    \/ PnRequestSettles
    \/ AuStartTLEAutoUpdate
    \/ AuIntervalFires
    \/ AuUpdateSettles
    \/ AuCleanup

SpecServices == InitServices /\ [][NextServices]_vars

----------------------------------------------------------------------------
(* BloomDataIndex: the grid and time indexes, queryData and its cache.      *)
(* A point is [id, lat, lon, year, month], lat and lon in tenths of a       *)
(* degree; a grid key is <<gridLat, gridLon>> in whole degrees, a time key  *)
(* <<year, month>>, a cache key <<minLat, maxLat, minLon, maxLon, year,     *)
(* month>>; Date.now() is counted in minutes.                               *)

MaxQueries == 2
MaxMinutes == 5

\* gridResolution is 1.0: Math.floor(x / 1.0) * 1.0 and Math.ceil(x / 1.0) * 1.0
\* of a coordinate held in tenths
FloorDegrees(tenths) == tenths \div 10
CeilDegrees(tenths) == 0 - ((0 - tenths) \div 10)

\* cacheExpiry: 5 * 60 * 1000 ms
cacheExpiry == 5

getGridKey(lat, lon) == <<FloorDegrees(lat), FloorDegrees(lon)>>

\* buildSpatialIndex after gridIndex.clear(): each key holds its points in
\* the order of the data
SpatialIndexOf(data) ==
    [k \in {getGridKey(data[i].lat, data[i].lon) : i \in 1..Len(data)} |->
        SelectSeq(data, LAMBDA point : getGridKey(point.lat, point.lon) = k)]

\* buildTemporalIndex after timeIndex.clear()
TemporalIndexOf(data) ==
    [k \in {<<data[i].year, data[i].month>> : i \in 1..Len(data)} |->
        SelectSeq(data, LAMBDA point : <<point.year, point.month>> = k)]

\* map.get(key) || []
IndexGetOrEmpty(index, key) == IF key \in DOMAIN index THEN index[key] ELSE <<>>

\* the grid cells the two for loops visit, in order: lat from minGridLat to
\* maxGridLat, and for each lat lon from minGridLon to maxGridLon
CellsVisited(bounds) ==
    Let(FloorDegrees(bounds.minLat), LAMBDA minGridLat :
    Let(CeilDegrees(bounds.maxLat), LAMBDA maxGridLat :
    Let(FloorDegrees(bounds.minLon), LAMBDA minGridLon :
    Let(CeilDegrees(bounds.maxLon), LAMBDA maxGridLon :
        IF maxGridLat < minGridLat \/ maxGridLon < minGridLon THEN <<>>
        ELSE Let(maxGridLon - minGridLon + 1, LAMBDA width :
                 [c \in 1..((maxGridLat - minGridLat + 1) * width) |->
                     <<minGridLat + ((c - 1) \div width),
                       minGridLon + ((c - 1) % width)>>])))))

\* the test of the innermost loop
InQuery(point, bounds, year, month) ==
    /\ point.year = year /\ point.month = month
    /\ point.lat >= bounds.minLat /\ point.lat <= bounds.maxLat
    /\ point.lon >= bounds.minLon /\ point.lon <= bounds.maxLon

\* if (results.length >= maxPoints) break
ReachedMax(results, maxPoints) == Len(results) >= maxPoints

RECURSIVE CellLoop(_, _, _, _, _, _, _)
\* for (const point of gridData), from the k-th point on: a matching point is
\* pushed, and the loop breaks when the results have reached maxPoints
CellLoop(gridData, k, results, bounds, year, month, maxPoints) ==
    IF k > Len(gridData) THEN results
    ELSE IF InQuery(gridData[k], bounds, year, month)
    THEN Let(Append(results, gridData[k]), LAMBDA pushed :
             IF ReachedMax(pushed, maxPoints) THEN pushed
             ELSE CellLoop(gridData, k + 1, pushed, bounds, year, month, maxPoints))
    ELSE CellLoop(gridData, k + 1, results, bounds, year, month, maxPoints)

RECURSIVE GridLoop(_, _, _, _, _, _, _, _)
\* the lat and lon loops from the c-th cell on: after each cell both loops
\* break when the results have reached maxPoints
GridLoop(gridIndex, cells, c, results, bounds, year, month, maxPoints) ==
    IF c > Len(cells) THEN results
    ELSE Let(CellLoop(IndexGetOrEmpty(gridIndex, cells[c]), 1, results,
                      bounds, year, month, maxPoints), LAMBDA after :
             IF ReachedMax(after, maxPoints) THEN after
             ELSE GridLoop(gridIndex, cells, c + 1, after, bounds, year, month, maxPoints))

CacheKeyOf(bounds, year, month) ==
    <<bounds.minLat, bounds.maxLat, bounds.minLon, bounds.maxLon, year, month>>

\* cached && Date.now() - cached.timestamp < this.cacheExpiry
CacheHit(dataCache, cacheKey, now) ==
    cacheKey \in DOMAIN dataCache /\ now - dataCache[cacheKey].timestamp < cacheExpiry

\* dataCache.set(cacheKey, entry)
CacheSet(dataCache, cacheKey, entry) ==
    [k \in DOMAIN dataCache \cup {cacheKey} |->
        IF k = cacheKey THEN entry ELSE dataCache[k]]

\* queryData: the data returned, where it came from, and the cache after it
queryData(gridIndex, timeIndex, dataCache, now, bounds, year, month, maxPoints) ==
    Let(CacheKeyOf(bounds, year, month), LAMBDA cacheKey :
        IF CacheHit(dataCache, cacheKey, now)
        THEN [data |-> dataCache[cacheKey].data, from |-> "cache", dataCache |-> dataCache]
        ELSE IF Len(IndexGetOrEmpty(timeIndex, <<year, month>>)) = 0
        THEN [data |-> <<>>, from |-> "noTimeData", dataCache |-> dataCache]
        ELSE Let(GridLoop(gridIndex, CellsVisited(bounds), 1, <<>>,
                          bounds, year, month, maxPoints), LAMBDA results :
                 [data |-> results, from |-> "index",
                  dataCache |-> CacheSet(dataCache, cacheKey,
                                         [data |-> results, timestamp |-> now])]))

IndexPoint(id, lat, lon, year, month) ==
    [id |-> id, lat |-> lat, lon |-> lon, year |-> year, month |-> month]

\* the data handed to the index: three points of April 2020 in three grid
\* cells around (40, -75), or one of them and a point of May 2021
IndexDatasets ==
    {<<IndexPoint(1, 415, 0 - 745, 2020, 4), IndexPoint(2, 400, 0 - 750, 2020, 4),
       IndexPoint(3, 401, 0 - 751, 2020, 4)>>,
     <<IndexPoint(1, 400, 0 - 750, 2020, 4), IndexPoint(2, 400, 0 - 750, 2021, 5)>>}

\* a box that holds every point, and one that leaves out the point at 41.5
QueryBounds ==
    {[minLat |-> 395, maxLat |-> 420, minLon |-> 0 - 760, maxLon |-> 0 - 740],
     [minLat |-> 400, maxLat |-> 410, minLon |-> 0 - 755, maxLon |-> 0 - 745]}

\* the months asked for: one with data, one without
QueryMonths == {4, 6}
QueryYear == 2020

\* the values of maxPoints
MaxPointsValues == {0, 1, 2}

\* buildSpatialIndex(data)
IxBuildSpatialIndex ==
    /\ \E data \in IndexDatasets : ixGridIndex' = SpatialIndexOf(data)
    /\ UNCHANGED <<ixTimeIndex, ixDataCache, ixNow, ixCalls>>
    /\ UNCHANGED otherThanIndex

\* buildTemporalIndex(data)
IxBuildTemporalIndex ==
    /\ \E data \in IndexDatasets : ixTimeIndex' = TemporalIndexOf(data)
    /\ UNCHANGED <<ixGridIndex, ixDataCache, ixNow, ixCalls>>
    /\ UNCHANGED otherThanIndex

\* queryData(bounds, year, month, maxPoints)
IxQueryData ==
    /\ Len(ixCalls) < MaxQueries
    /\ \E bounds \in QueryBounds, month \in QueryMonths, maxPoints \in MaxPointsValues :
         \E r \in {queryData(ixGridIndex, ixTimeIndex, ixDataCache, ixNow,
                             bounds, QueryYear, month, maxPoints)} :
            /\ ixDataCache' = r.dataCache
            /\ ixCalls' = Append(ixCalls,
                  [bounds |-> bounds, year |-> QueryYear, month |-> month,
                   maxPoints |-> maxPoints, from |-> r.from, out |-> r.data])
    /\ UNCHANGED <<ixGridIndex, ixTimeIndex, ixNow>>
    /\ UNCHANGED otherThanIndex

\* clear()
IxClear ==
    /\ ixGridIndex' = <<>> /\ ixTimeIndex' = <<>> /\ ixDataCache' = <<>>
    /\ UNCHANGED <<ixNow, ixCalls>>
    /\ UNCHANGED otherThanIndex

\* a minute passes
IxMinutePasses ==
    /\ ixNow < MaxMinutes
    /\ ixNow' = ixNow + 1
    /\ UNCHANGED <<ixGridIndex, ixTimeIndex, ixDataCache, ixCalls>>
    /\ UNCHANGED otherThanIndex

\* the singleton as constructed
InitIndex ==
    /\ ixGridIndex = <<>> /\ ixTimeIndex = <<>> /\ ixDataCache = <<>>
    /\ ixNow = 0 /\ ixCalls = <<>>
    /\ CsvAbsent
    /\ ChartAbsent
    /\ SamplerAbsent
    /\ RegionAbsent
    /\ CoverageAbsent
    /\ ServicesAbsent
    /\ ClockAbsent

NextIndex ==
    \/ IxBuildSpatialIndex
    \/ IxBuildTemporalIndex
    \/ IxQueryData
    \/ IxClear
    \/ IxMinutePasses

SpecIndex == InitIndex /\ [][NextIndex]_vars

----------------------------------------------------------------------------
(* EarthGlobe: the simulation clock.  A Date is held as the hours from      *)
(* 2015-01-01T00:00 local time to it; the browser's time zone is a whole    *)
(* number of hours, without daylight saving.                                *)

MaxClockEvents == 4

IsLeap(y) == (y % 4 = 0 /\ y % 100 # 0) \/ y % 400 = 0

DaysInMonth(y, m) ==
    IF m = 2 THEN (IF IsLeap(y) THEN 29 ELSE 28)
    ELSE IF m \in {4, 6, 9, 11} THEN 30 ELSE 31

\* the leap years before y
LeapsBefore(y) == ((y - 1) \div 4) - ((y - 1) \div 100) + ((y - 1) \div 400)

\* the days from 2015-01-01 to the first day of a year, of a month
YearStart(y) == 365 * (y - 2015) + LeapsBefore(y) - LeapsBefore(2015)
MonthStart(y, m) ==
    YearStart(y) + Cardinality({<<k, d>> \in (1..(m - 1)) \X (1..31) : d <= DaysInMonth(y, k)})

\* new Date(y, m - 1, d, h) in local time; a day past the end of the month
\* runs on into the next month
FromCivil(y, m, d, h) == (MonthStart(y, m) + d - 1) * 24 + h

\* the years the calendar is worked out for
CalendarYears == 2013..2040

\* getFullYear(), getMonth() + 1, getDate(), getHours() of a Date
ToCivil(t) ==
    Let(t \div 24, LAMBDA day :
    Let(CHOOSE y \in CalendarYears : YearStart(y) <= day /\ day < YearStart(y + 1), LAMBDA y :
    Let(CHOOSE m \in 1..12 : MonthStart(y, m) <= day /\ day < MonthStart(y, m) + DaysInMonth(y, m),
        LAMBDA m :
            [year |-> y, month |-> m, day |-> day - MonthStart(y, m) + 1, hour |-> t % 24])))

\* newTime.setMonth(newTime.getMonth() + by): the month index is brought
\* into 0..11 by moving the year, the day and hour are kept
SetMonthBy(t, by) ==
    Let(ToCivil(t), LAMBDA c :
    Let(c.month - 1 + by, LAMBDA index :
        FromCivil(c.year + (index \div 12), (index % 12) + 1, c.day, c.hour)))

\* new Date('2015-01-01T00:00:00'): midnight in local time
minDate == 0

\* new Date('2015-01-01'): a date-only string is midnight UTC
MinDateUtc(offset) == offset

\* new Date(): the day the page is used
Today == FromCivil(2024, 10, 5, 12)

\* useState(new Date('2024-04-15T12:00:00'))
InitialTime == FromCivil(2024, 4, 15, 12)

TimeOf(t) == [isNull |-> FALSE, t |-> t]

\* simulationSpeed * delta, delta in seconds, as whole hours
StepHours(speed, delta) == (speed * delta) \div 3600

\* the updater of setCurrentTime in animate(): the new time, and whether
\* setIsPaused(true) and setIsPlaying(false) were called
Tick(prevTime, end, speed, delta) ==
    Let(~end.isNull /\ end.t < prevTime, LAMBDA isReversing :
    Let(prevTime + (IF isReversing THEN 0 - 1 ELSE 1) * StepHours(speed, delta),
        LAMBDA newTime :
            IF newTime < minDate
            THEN [time |-> minDate, stopped |-> FALSE, clamped |-> TRUE]
            ELSE IF ~end.isNull /\ isReversing /\ newTime <= end.t
            THEN [time |-> end.t, stopped |-> TRUE, clamped |-> FALSE]
            ELSE IF ~end.isNull /\ ~isReversing /\ newTime >= end.t
            THEN [time |-> end.t, stopped |-> TRUE, clamped |-> FALSE]
            ELSE [time |-> newTime, stopped |-> FALSE, clamped |-> FALSE]))

\* the time between two animation frames, in seconds: a second, or a minute
\* (requestAnimationFrame is held back while the page is hidden)
FrameDeltas == {1, 60}

\* the speed buttons
SpeedButtons == {1, 60, 3600, 86400, 2592000}

\* what is typed into the YYYY-MM inputs: nothing, text that is no date, or
\* a year and a month
Typed(kind, year, month) == [kind |-> kind, year |-> year, month |-> month]
TypedValues ==
    {Typed("empty", 0, 0), Typed("invalid", 0, 0),
     Typed("match", 2014, 6), Typed("match", 2015, 2), Typed("match", 2015, 13)}

\* if (month < 1) month = 1; if (month > 12) month = 12
ClampMonth(month) == IF month < 1 THEN 1 ELSE IF month > 12 THEN 12 ELSE month

\* the time zones: New York, UTC, Seoul
TimeZones == {0 - 5, 0, 9}

Event(op, arg) == [op |-> op, arg |-> arg, stopped |-> FALSE, clamped |-> FALSE]

MoreEvents == clockEvents < MaxClockEvents

\* animate() on a frame on which the clock runs
ClockTick ==
    /\ MoreEvents
    /\ ~isPaused /\ ~isEditingTime
    /\ \E delta \in FrameDeltas :
         /\ (simulationSpeed * delta) % 3600 = 0
         /\ \E r \in {Tick(currentTime, endTime, simulationSpeed, delta)} :
              /\ r.time <= FromCivil(2040, 1, 1, 0)
              /\ currentTime' = r.time
              /\ isPaused' = (IF r.stopped THEN TRUE ELSE isPaused)
              /\ isPlaying' = (IF r.stopped THEN FALSE ELSE isPlaying)
              /\ clockLast' = [op |-> "tick", arg |-> <<delta>>,
                               stopped |-> r.stopped, clamped |-> r.clamped]
    /\ clockEvents' = clockEvents + 1
    /\ UNCHANGED <<tzOffset, startTime, endTime, simulationSpeed, isEditingTime>>
    /\ UNCHANGED otherThanClock

\* the button that returns to the present
ClockNow ==
    /\ MoreEvents
    /\ currentTime' = Today
    /\ simulationSpeed' = 1
    /\ clockLast' = Event("now", <<>>)
    /\ clockEvents' = clockEvents + 1
    /\ UNCHANGED <<tzOffset, startTime, endTime, isPaused, isEditingTime, isPlaying>>
    /\ UNCHANGED otherThanClock

\* a speed button
ClockSetSpeed ==
    /\ MoreEvents
    /\ \E speed \in SpeedButtons :
         /\ simulationSpeed' = speed
         /\ clockLast' = Event("speed", <<speed>>)
    /\ clockEvents' = clockEvents + 1
    /\ UNCHANGED <<tzOffset, currentTime, startTime, endTime, isPaused, isEditingTime,
                   isPlaying>>
    /\ UNCHANGED otherThanClock

\* the previous-month button
ClockPreviousMonth ==
    /\ MoreEvents
    /\ \E newTime \in {SetMonthBy(currentTime, 0 - 1)} :
         currentTime' = IF newTime < minDate THEN minDate ELSE newTime
    /\ clockLast' = Event("previousMonth", <<>>)
    /\ clockEvents' = clockEvents + 1
    /\ UNCHANGED <<tzOffset, startTime, endTime, simulationSpeed, isPaused, isEditingTime,
                   isPlaying>>
    /\ UNCHANGED otherThanClock

\* the next-month button
ClockNextMonth ==
    /\ MoreEvents
    /\ \E newTime \in {SetMonthBy(currentTime, 1)} :
         currentTime' = IF newTime > Today THEN Today ELSE newTime
    /\ clockLast' = Event("nextMonth", <<>>)
    /\ clockEvents' = clockEvents + 1
    /\ UNCHANGED <<tzOffset, startTime, endTime, simulationSpeed, isPaused, isEditingTime,
                   isPlaying>>
    /\ UNCHANGED otherThanClock

\* the play/pause button
ClockPlayPause ==
    /\ MoreEvents
    /\ isPaused' = ~isPaused
    /\ isPlaying' = ~isPlaying
    /\ clockLast' = Event("playPause", <<>>)
    /\ clockEvents' = clockEvents + 1
    /\ UNCHANGED <<tzOffset, currentTime, startTime, endTime, simulationSpeed,
                   isEditingTime>>
    /\ UNCHANGED otherThanClock

\* onBlur of the start-time input, the input holding typed: the start time
\* it leaves
StartBlur(typed, start, offset) ==
    IF typed.kind = "empty" THEN NullTime
    ELSE IF typed.kind = "invalid" THEN start
    ELSE Let(FromCivil(typed.year, ClampMonth(typed.month), 1, 0), LAMBDA newDate :
             IF newDate < MinDateUtc(offset) THEN TimeOf(MinDateUtc(offset))
             ELSE IF newDate > Today THEN TimeOf(Today)
             ELSE TimeOf(newDate))

\* the start-time input loses the focus
ClockStartBlur ==
    /\ MoreEvents
    /\ \E typed \in TypedValues :
         /\ startTime' = StartBlur(typed, startTime, tzOffset)
         /\ clockLast' = Event("startBlur", <<typed>>)
    /\ clockEvents' = clockEvents + 1
    /\ UNCHANGED <<tzOffset, currentTime, endTime, simulationSpeed, isPaused, isEditingTime,
                   isPlaying>>
    /\ UNCHANGED otherThanClock

\* const targetYear = year < 2015 ? 2015 : year
TargetYear(year) == IF year < 2015 THEN 2015 ELSE year

\* Enter in the start-time input: a date jumps the clock there and is
\* written back as targetYear-month; then inputElement.blur() runs onBlur on
\* what the input holds
ClockStartEnter ==
    /\ MoreEvents
    /\ \E typed \in TypedValues :
         /\ IF typed.kind = "match"
            THEN \E shown \in {Typed("match", TargetYear(typed.year), ClampMonth(typed.month))} :
                    /\ currentTime' = FromCivil(shown.year, shown.month, 1, 0)
                    /\ startTime' = StartBlur(shown, TimeOf(FromCivil(shown.year, shown.month, 1, 0)),
                                              tzOffset)
            ELSE /\ currentTime' = currentTime
                 /\ startTime' = StartBlur(typed, startTime, tzOffset)
         /\ clockLast' = Event("startEnter", <<typed>>)
    /\ clockEvents' = clockEvents + 1
    /\ UNCHANGED <<tzOffset, endTime, simulationSpeed, isPaused, isEditingTime, isPlaying>>
    /\ UNCHANGED otherThanClock

\* onBlur of the end-time input (Enter blurs it): the end time it leaves
EndBlur(typed, end, offset) ==
    IF typed.kind = "empty" THEN NullTime
    ELSE IF typed.kind = "invalid" THEN end
    ELSE Let(FromCivil(typed.year, ClampMonth(typed.month), 1, 0), LAMBDA newDate :
             IF newDate < MinDateUtc(offset) THEN NullTime ELSE TimeOf(newDate))

\* the end-time input loses the focus
ClockEndBlur ==
    /\ MoreEvents
    /\ \E typed \in TypedValues :
         /\ endTime' = EndBlur(typed, endTime, tzOffset)
         /\ clockLast' = Event("endBlur", <<typed>>)
    /\ clockEvents' = clockEvents + 1
    /\ UNCHANGED <<tzOffset, currentTime, startTime, simulationSpeed, isPaused, isEditingTime,
                   isPlaying>>
    /\ UNCHANGED otherThanClock

\* the Start button, rendered when startTime && endTime
ClockStartButton ==
    /\ MoreEvents
    /\ ~startTime.isNull /\ ~endTime.isNull
    /\ currentTime' = startTime.t
    /\ isPaused' = FALSE
    /\ isPlaying' = TRUE
    /\ clockLast' = Event("start", <<>>)
    /\ clockEvents' = clockEvents + 1
    /\ UNCHANGED <<tzOffset, startTime, endTime, simulationSpeed, isEditingTime>>
    /\ UNCHANGED otherThanClock

\* the component as mounted
InitClock ==
    /\ tzOffset \in TimeZones
    /\ currentTime = InitialTime
    /\ startTime = NullTime /\ endTime = NullTime
    /\ simulationSpeed = 1
    /\ isPaused = FALSE /\ isEditingTime = FALSE /\ isPlaying = FALSE
    /\ clockEvents = 0 /\ clockLast = NoEvent
    /\ CsvAbsent
    /\ ChartAbsent
    /\ SamplerAbsent
    /\ RegionAbsent
    /\ CoverageAbsent
    /\ ServicesAbsent
    /\ IndexAbsent

NextClock ==
    \/ ClockTick
    \/ ClockNow
    \/ ClockSetSpeed
    \/ ClockPreviousMonth
    \/ ClockNextMonth
    \/ ClockPlayPause
    \/ ClockStartBlur
    \/ ClockStartEnter
    \/ ClockEndBlur
    \/ ClockStartButton

SpecClock == InitClock /\ [][NextClock]_vars





----------------------------------------------------------------------------
(* Claims about CSV ingestion                                               *)

InGeoBounds(p) ==
    /\ ~isNaN(p.lat) /\ ~isNaN(p.lon)
    /\ p.lat.v >= 0 - 900 /\ p.lat.v <= 900
    /\ p.lon.v >= 0 - 1800 /\ p.lon.v <= 1800

AllInGeoBounds(points) == \A i \in 1..Len(points) : InGeoBounds(points[i])

\* C1: every point returned by a CSV ingestion path (the primary parse, the
\* minimal-parse fallback, the synthetic grid, DataPanel's parser) has
\* latitude in [-90,90] and longitude in [-180,180].
C1_ReturnedPointsInGeoBounds ==
    /\ AllInGeoBounds(egResult)
    /\ AllInGeoBounds(dpResult)

\* the header of the served file lacks a required column
HeaderLacksColumn ==
    /\ Len(NonBlankLines(csvText)) > 0
    /\ Len(MissingColumns(MapSeq(NonBlankLines(csvText)[1], Trim))) > 0

\* C2: ingesting a file whose header lacks a required column yields a
\* reported error and a result that is empty or a fallback dataset, never
\* points built from the file's rows with fields missing or defaulted.
C2_MissingColumnNeverPartiallyTyped ==
    HeaderLacksColumn =>
        /\ egPc = "done" =>
              /\ egErrorReported
              /\ egResult = <<>> \/ egReturnedAt = "synthetic"
        /\ amPc = "done" => amThrew /\ amResult = <<>>

IsPoint(p) ==
    DOMAIN p = {"lat", "lon", "tmean", "pr", "NDVI", "label", "month", "year",
                "srad", "soil", "vpd", "dtr", "AGDD"}

\* C10: parseBloomCSV never throws or rejects: whatever the outcome of the
\* primary fetch, the parse and the re-fetch, the call goes on until its
\* promise resolves with an array of points.
C10_ParseBloomCSVAlwaysResolves ==
    /\ egPromise # "rejected"
    /\ egPc = "done" =>
          /\ egPromise = "resolved"
          /\ \A i \in 1..Len(egResult) : IsPoint(egResult[i])
    /\ (csvCall = "EarthGlobe" /\ egPc # "done") =>
          ENABLED (EgPrimaryFetch \/ EgPrimaryParse \/ EgFallbackFetch
                     \/ EgMinimalParse \/ EgSynthetic)

\* both fetches failed and the call still resolved
C10_Witness ==
    /\ egPc = "done" /\ egPromise = "resolved"
    /\ Len(egLog) = 3
    /\ egLog[1].outcome = "networkError"
    /\ egLog[2] = [step |-> "refetch", outcome |-> "networkError"]

----------------------------------------------------------------------------
(* Claims about the filter and the aggregator                               *)

\* positions of data matched by the square test at the i-th radius
MatchedAt(i) ==
    {k \in 1..Len(allBloomData) : WithinSquare(allBloomData[k], location, searchRadii[i])}

\* C3: the expanding-radius filter is monotonic: for the same point set and
\* centre, what the square test matches at a radius is matched at every
\* larger radius of the sequence; so is what the effect selected.
C3_RadiusFilterMonotonic ==
    \A i \in 1..Len(searchRadii) : \A j \in (i + 1)..Len(searchRadii) :
        /\ MatchedAt(i) \subseteq MatchedAt(j)
        /\ (chartPc \in {"waiting", "shown"} /\ usedRadiusSq = searchRadii[i] * searchRadii[i]
              /\ Len(locationData) > 0 /\ MatchedAt(i) # {})
             => \A k \in 1..Len(locationData) :
                    WithinSquare(locationData[k], location, searchRadii[j])

\* the effect ran, matched at 0.5 degrees, and a larger radius matches more
C3_Witness ==
    /\ chartPc = "waiting"
    /\ MatchedAt(1) # {}
    /\ MatchedAt(1) # MatchedAt(2)
    /\ Len(locationData) = Cardinality(MatchedAt(1))

CountIn(seq, x) == Cardinality({i \in 1..Len(seq) : seq[i] = x})
RangeOf(seq) == {seq[i] : i \in 1..Len(seq)}

\* no point lies in the largest search square
NothingNearby == MatchedAt(Len(searchRadii)) = {}

\* C4: when the collection is not empty and nothing lies within the
\* 10-degree square, the filter returns exactly min(50, n) of the n points,
\* and no point left out is strictly nearer to the target than a selected one.
C4_NearestFallbackSelectsNearest ==
    (chartPc \in {"waiting", "shown"} /\ Len(allBloomData) > 0 /\ NothingNearby) =>
        /\ Len(locationData) = Min(50, Len(allBloomData))
        /\ \A p \in RangeOf(locationData) :
              CountIn(locationData, p) <= CountIn(allBloomData, p)
        /\ \A q \in RangeOf(allBloomData) :
              CountIn(locationData, q) < CountIn(allBloomData, q) =>
                 \A p \in RangeOf(locationData) :
                    DistanceSq(q, location) >= DistanceSq(p, location)

\* the fallback ran on more than 50 points, kept points at two distances
\* and left a point out
C4_Witness ==
    /\ chartPc = "waiting" /\ NothingNearby
    /\ Len(allBloomData) > 50
    /\ Len(locationData) = 50
    /\ Cardinality({DistanceSq(p, location) : p \in RangeOf(locationData)}) = 2
    /\ \E q \in RangeOf(allBloomData) : CountIn(locationData, q) < CountIn(allBloomData, q)

\* the sum of a field over the positions of a set, the set split at the
\* middle of its span so that the recursion stays shallow
RECURSIVE SumOver(_, _, _)
SumOver(data, positions, field) ==
    IF positions = {} THEN 0
    ELSE Let(CHOOSE x \in positions : \A y \in positions : x <= y, LAMBDA lo :
         Let(CHOOSE x \in positions : \A y \in positions : y <= x, LAMBDA hi :
             IF lo = hi THEN data[lo][field]
             ELSE Let((lo + hi) \div 2, LAMBDA mid :
                      SumOver(data, {x \in positions : x <= mid}, field)
                        + SumOver(data, {x \in positions : x > mid}, field))))

\* the positions of locationData that have a year and month
PositionsOf(year, month) ==
    {k \in 1..Len(locationData) : locationData[k].year = year /\ locationData[k].month = month}

\* r is the fraction sum / count
IsMeanOf(r, sum, count) == count > 0 /\ r.den > 0 /\ r.num * count = sum * r.den

BucketMeansRight(rec) ==
    LET ps == PositionsOf(rec.year, rec.month)
        n == Cardinality(ps)
    IN  /\ IsMeanOf(rec.ndvi, SumOver(locationData, ps, "NDVI"), n)
        /\ IsMeanOf(rec.temperature, SumOver(locationData, ps, "tmean"), n)
        /\ IsMeanOf(rec.vpd, SumOver(locationData, ps, "vpd"), n)
        /\ IsMeanOf(rec.precipitation, SumOver(locationData, ps, "pr"), n)

\* C5: in every (year, month) bucket the aggregator emits, the NDVI,
\* temperature, vapour-pressure-deficit and precipitation values are the
\* arithmetic means of the field over exactly the filtered points of that
\* year and month.
C5_BucketMeansAreArithmeticMeans ==
    /\ \A i \in 1..Len(timeSeries) : BucketMeansRight(timeSeries[i])
    /\ \A i \in 1..Len(timeSeriesData) : BucketMeansRight(timeSeriesData[i])

\* a bucket of fifty points with two different NDVI values is shown, its
\* mean not a whole number
C5_Witness ==
    /\ chartPc = "shown"
    /\ \E i \in 1..Len(timeSeriesData) :
          LET ps == PositionsOf(timeSeriesData[i].year, timeSeriesData[i].month)
          IN  /\ Cardinality(ps) = 50
              /\ Cardinality({locationData[k].NDVI : k \in ps}) = 2
              /\ timeSeriesData[i].ndvi.den > 1

\* C6: the aggregator emits exactly one record for each (year, month) pair
\* present in the filtered set, none for a month without observations, and
\* the records are ordered by year, then month.
C6_OneRecordPerMonthInOrder ==
    chartPc \in {"waiting", "shown"} =>
        /\ {<<timeSeries[i].year, timeSeries[i].month>> : i \in 1..Len(timeSeries)}
              = {MonthKey(locationData[k]) : k \in 1..Len(locationData)}
        /\ \A i \in 1..Len(timeSeries) : \A j \in (i + 1)..Len(timeSeries) :
              \/ timeSeries[i].year < timeSeries[j].year
              \/ /\ timeSeries[i].year = timeSeries[j].year
                 /\ timeSeries[i].month < timeSeries[j].month

\* two buckets whose order of first appearance is not chronological
C6_Witness ==
    /\ chartPc = "waiting"
    /\ Len(timeSeries) = 2
    /\ MonthKey(locationData[1]) = <<2020, 4>>
    /\ timeSeries[1].year = 2019 /\ timeSeries[2].year = 2020

----------------------------------------------------------------------------
(* Claims about the sampler and the region resolver                         *)

\* the region's array went through the sampler's sort and slices
SamplerTriggered(r) ==
    /\ ~rendered[r].skipped
    /\ Len(FilteredData(r, globalBloomData[r])) > maxPointsPerRegion

\* C7: for every region, input size and camera-height tier, the number of
\* points the sampler passes on for rendering never exceeds the tier's
\* budget, which is 3000, 1500, 800 or 400.
C7_SamplerWithinTierBudget ==
    samplerPc = "rendered" =>
        /\ maxPointsPerRegion \in {3000, 1500, 800, 400}
        /\ maxPointsPerRegion = MaxPointsPerRegion(currentCameraHeight)
        /\ \A r \in DOMAIN rendered :
              Len(rendered[r].limitedData) <= maxPointsPerRegion

\* the sampler cut a region down to exactly the budget
C7_Witness ==
    /\ samplerPc = "rendered"
    /\ \E r \in DOMAIN rendered :
          /\ SamplerTriggered(r)
          /\ Len(rendered[r].limitedData) = maxPointsPerRegion

\* the highest priority score of the data
HighestScore(data) ==
    Let({Priority(data[i]) : i \in 1..Len(data)}, LAMBDA scores :
        CHOOSE m \in scores : \A x \in scores : x <= m)

\* the ids of the points of the highest priority score
TopScoreIds(data) ==
    Let(data, LAMBDA points :
        Let(HighestScore(points), LAMBDA top :
            {points[i].id : i \in {k \in 1..Len(points) : Priority(points[k]) = top}}))

\* the ids of the points passed on for a region
RenderedIds(r) ==
    {rendered[r].limitedData[k].id : k \in 1..Len(rendered[r].limitedData)}

\* C8 as the specification states it: whenever the budget is at least 1,
\* every point whose priority score is the highest of the input is in the
\* sampler's output, however many points tie at that score.
C8_TopScorePointsKept ==
    (samplerPc = "rendered" /\ maxPointsPerRegion >= 1) =>
        \A r \in DOMAIN rendered :
            ~rendered[r].skipped =>
                Let(TopScoreIds(FilteredData(r, globalBloomData[r])), LAMBDA top :
                    Let(RenderedIds(r), LAMBDA ids : top \subseteq ids))

\* C8, amended: every point of the highest score is in the output when the
\* input is within the budget or at most floor(0.7 * budget) points tie at
\* that score; when more tie, at least floor(0.7 * budget) of them are.
C8_TopScorePointsKeptUpToTopShare ==
    (samplerPc = "rendered" /\ maxPointsPerRegion >= 1) =>
        \A r \in DOMAIN rendered :
            ~rendered[r].skipped =>
                Let(TopScoreIds(FilteredData(r, globalBloomData[r])), LAMBDA top :
                    Let(RenderedIds(r), LAMBDA ids :
                        /\ (~SamplerTriggered(r)
                               \/ Cardinality(top) <= TopShare(maxPointsPerRegion))
                              => top \subseteq ids
                        /\ Cardinality(top \cap ids)
                              >= Min(Cardinality(top), TopShare(maxPointsPerRegion))))

\* the sampler ran on a region whose only point of the highest score came
\* last in the input, and kept it
C8_Witness ==
    /\ samplerPc = "rendered"
    /\ \E r \in DOMAIN rendered :
          /\ SamplerTriggered(r)
          /\ TopScoreIds(globalBloomData[r]) = {Len(globalBloomData[r])}
          /\ Len(globalBloomData[r]) \in RenderedIds(r)

----------------------------------------------------------------------------
(* Claims about the fallback order of parseBloomCSV                         *)

\* the i-th attempt of the call
StepAt(i) == egLog[i].step
OutcomeAt(i) == egLog[i].outcome

\* the i-th attempt is a primary step that failed
PrimaryFailedAt(i) ==
    \/ StepAt(i) = "primaryFetch" /\ OutcomeAt(i) # "ok"
    \/ StepAt(i) = "primaryParse" /\ OutcomeAt(i) # "returned"

----------------------------------------------------------------------------
(* Claims about the sampler's output                                        *)

RECURSIVE SortedDescending(_)
\* the points in descending order of priority score, points of equal score
\* in their input order
SortedDescending(data) ==
    IF Len(data) = 0 THEN <<>>
    ELSE Let(HighestScore(data), LAMBDA top :
             SelectSeq(data, LAMBDA q : Priority(q) = top)
               \o SortedDescending(SelectSeq(data, LAMBDA q : Priority(q) < top)))

\* out is the first 70% share of the sorted points, then the sorted points
\* at 0, 3, 6, ... past that share, at most the 30% share of them
IsSampleOf(out, sorted, budget) ==
    Let((budget * 7) \div 10, LAMBDA topCount :
        Let((Len(sorted) - topCount + 2) \div 3, LAMBDA thirds :
            /\ Len(out) = topCount + Min((budget * 3) \div 10, thirds)
            /\ \A k \in 1..topCount : out[k] = sorted[k]
            /\ \A k \in 1..(Len(out) - topCount) :
                  out[topCount + k] = sorted[topCount + 3 * (k - 1) + 1]))

----------------------------------------------------------------------------
(* Claims about checkDataCoverage                                           *)

\* the target is inside the Americas box
TargetInBox ==
    /\ ~covTarget.lat.nan /\ ~covTarget.lon.nan
    /\ covTarget.lat.v >= 0 - 600 /\ covTarget.lat.v <= 850
    /\ covTarget.lon.v >= 0 - 1700 /\ covTarget.lon.v <= 0 - 300

\* a point of csvData lies within 5 degrees of the target
PointWithinFive ==
    \E i \in 1..Len(covData) :
        /\ ~covData[i].lat.nan /\ ~covData[i].lon.nan
        /\ (covData[i].lat.v - covTarget.lat.v) * (covData[i].lat.v - covTarget.lat.v)
             + (covData[i].lon.v - covTarget.lon.v) * (covData[i].lon.v - covTarget.lon.v)
             <= 50 * 50

----------------------------------------------------------------------------
(* Claims about the resolver's exclusion rectangles                         *)

\* the bounding-box test: lat in [-60, 85], lon in [-170, -30]
PassesBox(lat, lon) ==
    /\ ~lat.nan /\ ~lon.nan
    /\ lat.v >= 0 - 600 /\ lat.v <= 850
    /\ lon.v >= 0 - 1700 /\ lon.v <= 0 - 300

\* every whole degree of the box, and every tenth of a degree of latitude
\* 10..20 and longitude -31..-19, which holds the exclusion's ranges
GridLats == {Num(10 * d) : d \in (0 - 60)..85} \cup {Num(t) : t \in 100..200}
GridLons == {Num(10 * d) : d \in (0 - 170)..(0 - 30)} \cup {Num(t) : t \in (0 - 310)..(0 - 190)}

\* C14: the classification is the bounding-box test minus exclusion
\* rectangles: some coordinate passes the bounding-box test and is
\* nevertheless classified outside.
C14_ExclusionCarvesTheBox ==
    /\ \A i \in 1..Len(regionCalls) :
          regionCalls[i].outcome.returned => PassesBox(regionCalls[i].lat, regionCalls[i].lon)
    /\ \E lat \in GridLats : \E lon \in GridLons :
          PassesBox(lat, lon) /\ ~isWithinAmericasRegion(lat, lon).returned

----------------------------------------------------------------------------
(* Claims about the row accounting of the primary parse                     *)

\* the loop of the primary parse ran to its end
PrimaryLoopEnded ==
    \E i \in 1..Len(egLog) :
        egLog[i].step = "primaryParse" /\ egLog[i].outcome \in {"returned", "noValidRows"}

\* the data rows of the served file: its non-blank lines after the header
DataRowsOf(text) == Tail(NonBlankLines(text))
HeaderOf(text) == MapSeq(NonBlankLines(text)[1], Trim)

\* the cell of a row under a named column, trimmed
CellUnder(row, header, col) == At(MapSeq(row, Trim), IndexOf(header, col))

\* a row the primary path has to drop: field count unlike the header's, or a
\* latitude/longitude that is no number or lies outside [-90,90] x [-180,180]
RowIsInvalid(row, header) ==
    \/ Len(row) # Len(header)
    \/ ParseFloat(CellUnder(row, header, ColLat)).nan
    \/ ParseFloat(CellUnder(row, header, ColLon)).nan
    \/ ParseFloat(CellUnder(row, header, ColLat)).v < 0 - 900
    \/ ParseFloat(CellUnder(row, header, ColLat)).v > 900
    \/ ParseFloat(CellUnder(row, header, ColLon)).v < 0 - 1800
    \/ ParseFloat(CellUnder(row, header, ColLon)).v > 1800

InvalidRowCount(text) ==
    Cardinality({i \in 1..Len(DataRowsOf(text)) : RowIsInvalid(DataRowsOf(text)[i], HeaderOf(text))})

----------------------------------------------------------------------------
(* Claims about the cache of AmericasDataService                            *)

\* the step is a call of clearCache
ClearCacheStep ==
    Len(asCalls') = Len(asCalls) + 1 /\ asCalls'[Len(asCalls')].op = "clearCache"

\* the fetches the step issued
IssuedInStep == (Len(asFetches) + 1)..Len(asFetches')

\* C16: the cache is emptied only by clearCache: a key that is present stays
\* present through every step of loadAmericasData, getDataForViewport,
\* preloadAllData and getStatistics, and loadAmericasData (alone or under
\* getDataForViewport) issues no fetch of a file whose key is present, a key
\* cached as an empty list after a failed load included.
C16_CacheKeptAndNotRefetched ==
    [][AmericasCall =>
         /\ ~ClearCacheStep =>
               \A k \in AmericasKeys : asCache[k].has => asCache'[k].has
         /\ \A f \in IssuedInStep :
               asCalls'[asFetches'[f].owner].op \in {"loadAmericasData", "getDataForViewport"}
                  => ~asCache[asFetches'[f].key].has]_vars

\* a file was cached as an empty list after its only fetch, and a later
\* loadAmericasData call for that file returned without fetching it again
C16_Witness ==
    /\ AmericasCall
    /\ Len(asCalls) = 2 /\ Len(asFetches) = 1
    /\ asFetches[1].settled /\ asFetches[1].owner = 1
    /\ asCache[asFetches[1].key] = [has |-> TRUE, data |-> <<>>]
    /\ asCalls[2].op = "loadAmericasData" /\ asCalls[2].pc = "returned"
    /\ asCalls[2].key = asFetches[1].key
    /\ asCalls[2].out = <<>>

----------------------------------------------------------------------------
(* Claims about identical requests in flight                                *)

\* the step calls loadFile for the key: a loadRegionData that found the key
\* missing from the cache, or preloadAllData
LoadFileCalledFor(k) ==
    \/ \E c \in 1..Len(asCalls') :
         /\ asCalls'[c].op \in {"loadAmericasData", "getDataForViewport"}
         /\ asCalls'[c].key = k
         /\ asCalls'[c].pc \in {"awaitFetch", "afterLoadFile"}
         /\ c > Len(asCalls) \/ asCalls[c].pc = "gotRegion"
    \/ /\ Len(asCalls') = Len(asCalls) + 1
       /\ asCalls'[Len(asCalls')].op = "preloadAllData"

\* the step issues a fetch of the file
FetchIssuedFor(k) == \E f \in IssuedInStep : asFetches'[f].key = k

\* the step is a call of loadData() that finds the data not loaded
LoadDataCalled ==
    /\ Len(hbCalls') = Len(hbCalls) + 1
    /\ hbCalls'[Len(hbCalls')].op = "loadData"
    /\ ~hbIsLoaded

HbFetchIssued == Len(hbFetches') = Len(hbFetches) + 1

\* clearCache() / clear() has not been called
NoClearCacheSoFar == \A c \in 1..Len(asCalls) : asCalls[c].op # "clearCache"
NoClearSoFar == \A c \in 1..Len(hbCalls) : hbCalls[c].op # "clear"

\* C17 as stated: identical requests in flight are not de-duplicated: a call
\* of loadFile for a file, or of loadData, made while the fetch of an earlier
\* call for the same resource is in flight issues its own fetch.
C17_EachCallIssuesItsFetch ==
    [][/\ AmericasCall =>
            \A k \in AmericasKeys :
                LoadFileCalledFor(k) /\ InFlight(asFetches, k) => FetchIssuedFor(k)
       /\ HerbariumCall =>
            (LoadDataCalled /\ HbInFlight(hbFetches, "data") => HbFetchIssued)]_vars

\* C17 amended: a call of loadFile for a file, or of loadData, made while the
\* fetch of an earlier call for the same resource is in flight issues no fetch
\* of its own, unless clearCache() / clear() has been called before.
C17_InFlightRequestShared ==
    [][/\ AmericasCall /\ NoClearCacheSoFar =>
            \A k \in AmericasKeys :
                LoadFileCalledFor(k) /\ InFlight(asFetches, k) => ~FetchIssuedFor(k)
       /\ HerbariumCall /\ NoClearSoFar =>
            (LoadDataCalled /\ HbInFlight(hbFetches, "data") => ~HbFetchIssued)]_vars

\* two loadData calls were made while the fetch of the first was in flight:
\* one fetch was issued, the second call was handed the promise of the first
C17_Witness ==
    /\ HerbariumCall
    /\ Len(hbCalls) = 2 /\ Len(hbFetches) = 1
    /\ ~hbFetches[1].settled
    /\ hbCalls[1].op = "loadData" /\ hbCalls[1].pc = "awaitFetch"
    /\ hbCalls[2].op = "loadData" /\ hbCalls[2].pc = "awaitShared"
    /\ hbCalls[2].fetch = 1

----------------------------------------------------------------------------
(* Claims about failed loads                                                *)

FetchFailures == {"networkError", "httpError"}

\* C18: no data-loading failure is fatal: when the underlying fetch fails
\* (network error or non-2xx status), loadData, loadIUCNData and
\* getLocationData end in a value returned to the caller, never in a rejected
\* promise.
C18_NoLoadFailureIsFatal ==
    /\ \A c \in 1..Len(hbCalls) :
          /\ hbCalls[c].op \in {"loadData", "loadIUCNData"}
          /\ hbCalls[c].fetch # 0
          /\ hbFetches[hbCalls[c].fetch].outcome \in FetchFailures
          => hbCalls[c].pc = "resolved"
    /\ glPc \in {"resolved", "rejected"} /\ (\E i \in 1..Len(glLog) : glLog[i] \in FetchFailures)
          => glPc = "resolved"

----------------------------------------------------------------------------
(* Claims about the batch TLE lookup                                        *)

\* the lookups of a satellite that have returned both lines
ReturnedLines(id) ==
    {i \in 1..Len(stLookups) :
        stLookups[i].noradId = id /\ stLookups[i].pc = "done" /\ ~stLookups[i].tle.null}

\* C19: fetchMultipleTLE never rejects, and its map holds exactly the
\* satellites whose lookup returned both TLE lines, each with the lines its
\* own lookup returned: a lookup that failed on both sources adds nothing and
\* neither removes nor alters the entry of another satellite.
C19_MapHoldsExactlyReturnedLookups ==
    SatelliteCall /\ stPc # "idle" =>
        /\ stPc # "rejected"
        /\ \A id \in SatelliteIds :
              /\ stTleMap[id].has <=> ReturnedLines(id) # {}
              /\ stTleMap[id].has =>
                    \E i \in ReturnedLines(id) : stTleMap[id].tle = stLookups[i].tle

\* a batch of two satellites resolved: one lookup failed on both sources, the
\* other one's lines, found on the fallback source, are in the map
C19_Witness ==
    /\ SatelliteCall /\ stPc = "resolved"
    /\ Len(stLookups) = 2
    /\ stLookups[1].noradId # stLookups[2].noradId
    /\ stLookups[1].log = <<"networkError", "httpError">>
    /\ stLookups[2].log = <<"httpError", "threeLines">>
    /\ ~stTleMap[stLookups[1].noradId].has
    /\ stTleMap[stLookups[2].noradId].has
    /\ stTleMap[stLookups[2].noradId].tle.tle1 = TleLine(1, stLookups[2].noradId, "celestrak")

----------------------------------------------------------------------------
(* Claims about the location request of DataPanel                           *)

\* the request settles in the step
SettlesInStep(r) == ~pnRequests[r].settled /\ pnRequests'[r].settled

\* C20: a location request is never cancelled: whatever the location has
\* become, every request made stays in flight until it settles, its answer is
\* then written to realData and clears loading, an answer that arrives after
\* the answer of a newer request included; and loading, once set, is cleared
\* by nothing but a request settling, so it stays true while none settles.
C20_RequestNeverCancelled ==
    [][PanelCall =>
         /\ \A r \in 1..Len(pnRequests) :
               /\ r <= Len(pnRequests')
               /\ pnRequests'[r].location = pnRequests[r].location
               /\ pnRequests[r].settled => pnRequests'[r] = pnRequests[r]
               /\ SettlesInStep(r) =>
                     /\ pnRealData'.latitude = pnRequests[r].location.lat
                     /\ pnRealData'.longitude = pnRequests[r].location.lng
                     /\ ~pnLoading'
         /\ pnLoading /\ ~pnLoading' => \E r \in 1..Len(pnRequests) : SettlesInStep(r)]_vars

\* the location went from Philadelphia to Paris; the answer for Paris arrived
\* first, the answer for Philadelphia second: realData holds Philadelphia's
\* data while Paris is selected
C20_Witness ==
    /\ PanelCall
    /\ Len(pnRequests) = 2
    /\ pnRequests[1].settled /\ pnRequests[2].settled
    /\ pnRequests[1].order = 2 /\ pnRequests[2].order = 1
    /\ pnLocation = pnRequests[2].location
    /\ pnRealData.latitude = pnRequests[1].location.lat
    /\ pnRealData.latitude # pnLocation.lat
    /\ ~pnLoading

----------------------------------------------------------------------------
\* the points of a year and month, in order
PointsOfMonth(data, year, month) ==
    SelectSeq(data, LAMBDA point : point.year = year /\ point.month = month)

\* what the time fallbacks are described to select: the points of the
\* slider's month, else those of April 2020, else the first 1000
TimeSelection(regionData) ==
    Let(PointsOfMonth(regionData, currentYear, currentMonth), LAMBDA current :
        IF Len(current) # 0 THEN current
        ELSE Let(PointsOfMonth(regionData, 2020, 4), LAMBDA april :
                 IF Len(april) # 0 THEN april
                 ELSE SubSeq(regionData, 1, Min(1000, Len(regionData)))))

\* C21: for the us-east region the bloom layer renders points of the
\* slider's year and month only; the points of April 2020 are rendered only
\* when no point has the slider's month, and the first 1000 points of the
\* region only when there is no point of April 2020 either.
C21_UsEastRendersTheSelectedMonth ==
    samplerPc = "rendered" /\ "us-east" \in DOMAIN globalBloomData =>
        \A i \in 1..Len(rendered["us-east"].limitedData) :
            \E j \in 1..Len(TimeSelection(globalBloomData["us-east"])) :
                TimeSelection(globalBloomData["us-east"])[j]
                  = rendered["us-east"].limitedData[i]

----------------------------------------------------------------------------
\* the valid rows of the file of a region that covers the year and that have
\* the year and month; none when no file covers the year
RowsServedFor(region, year, month) ==
    Let(getFileNameForYear(region, year), LAMBDA fileName :
        IF fileName = NoFile THEN <<>>
        ELSE FilterYearMonth(LoadedData(fileName, "rows").data, year, month))

\* every fetch issued so far has settled and was served the file's rows
EveryFetchServedRows ==
    \A f \in 1..Len(asFetches) : asFetches[f].settled /\ asFetches[f].gotRows

\* C22: a call loadAmericasData(year, month, 'both') that has returned, no
\* fetch having failed and the cache never having been cleared, returned the
\* matching rows of the north file followed by those of the south file,
\* whatever other calls were in flight while it ran.
C22_ConcurrentLoadReadsWholeFile ==
    AmericasCall /\ EveryFetchServedRows /\ NoClearCacheSoFar =>
        \A c \in 1..Len(asCalls) :
            /\ asCalls[c].op = "loadAmericasData"
            /\ asCalls[c].region = "both"
            /\ asCalls[c].pc = "returned"
            => asCalls[c].out = RowsServedFor("north", asCalls[c].year, asCalls[c].month)
                                  \o RowsServedFor("south", asCalls[c].year, asCalls[c].month)

----------------------------------------------------------------------------
\* findNearestSpecimen gives null at once: if (!this.isLoaded ||
\* this.data.length === 0) return null
FindsNoSpecimen == ~hbIsLoaded \/ Len(hbData) = 0

\* clear() was called and loadData() has not been called since
ClearedAndNotReloaded ==
    \E c \in 1..Len(hbCalls) :
        /\ hbCalls[c].op = "clear"
        /\ \A d \in (c + 1)..Len(hbCalls) : hbCalls[d].op # "loadData"

\* C23: from the return of clear() until the next call of loadData the
\* service is empty and unloaded (isLoaded is false, so getStatistics reports
\* it unloaded, and findNearestSpecimen returns null), even if a loadData
\* call made before clear() completes in between.
C23_ClearedStaysUnloaded ==
    HerbariumCall /\ ClearedAndNotReloaded =>
        ~hbIsLoaded /\ hbData = <<>> /\ FindsNoSpecimen

----------------------------------------------------------------------------
\* C24: no call of queryData returns more points than its maxPoints,
\* whatever calls were made on the index before.
C24_QueryWithinMaxPoints ==
    \A c \in 1..Len(ixCalls) : Len(ixCalls[c].out) <= ixCalls[c].maxPoints

----------------------------------------------------------------------------
\* no fetch of loadFile is in flight
NoLoadInFlight == \A f \in 1..Len(asFetches) : asFetches[f].settled

\* C25: with no load in flight, the two per-region counters add up to the
\* number of points held in the file cache, after any calls of
\* loadAmericasData, getDataForViewport, preloadAllData and clearCache.
C25_CountersMatchCache ==
    AmericasCall /\ NoLoadInFlight =>
        asTotalPoints.north + asTotalPoints.south = CachedPoints(asCache, AmericasKeys)

----------------------------------------------------------------------------
(* Claims about the simulation clock                                        *)

\* the step is an animation tick
TickStep == clockEvents' = clockEvents + 1 /\ clockLast'.op = "tick"

\* where the tick would take the clock if nothing stopped it
Unstopped ==
    currentTime + (IF endTime.t < currentTime THEN 0 - 1 ELSE 1)
                     * StepHours(simulationSpeed, clockLast'.arg[1])

\* C26: with an end time set, a tick of the running clock moves currentTime
\* toward the end time and never past it, and the tick that reaches or would
\* cross the end time leaves currentTime at the end time, isPaused true and
\* isPlaying false.
C26_TickStopsAtEndTime ==
    [][TickStep /\ ~endTime.isNull =>
         /\ IF endTime.t < currentTime
            THEN endTime.t <= currentTime' /\ currentTime' <= currentTime
            ELSE currentTime <= currentTime' /\ currentTime' <= endTime.t
         /\ (IF endTime.t < currentTime THEN Unstopped <= endTime.t
                                        ELSE Unstopped >= endTime.t)
               => currentTime' = endTime.t /\ isPaused' /\ ~isPlaying']_vars

\* C27: currentTime is never earlier than January 2015 (midnight of
\* 2015-01-01 in the browser's time zone, the minimum the tick and the
\* previous-month button apply).
C27_NeverBefore2015 == currentTime >= minDate

\* C28: isPaused and isPlaying are never both true.
C28_PausedAndPlayingExclusive == ~(isPaused /\ isPlaying)

----------------------------------------------------------------------------
\* C29: once the cleanup function of startTLEAutoUpdate has been called the
\* callback is not invoked any more, an update that was in flight at the
\* cleanup included.
C29_NoCallbackAfterCleanup ==
    \A u \in 1..Len(auUpdates) :
        auUpdates[u].pc = "calledBack" => auUpdates[u].intervalWhenCalledBack # "cleared"

----------------------------------------------------------------------------
\* C30: a lookup that has returned asked the second source whenever the
\* first did not supply both lines, whether its request failed or was
\* answered without line1 and line2; so null is returned only after both
\* sources were asked.
C30_FallbackWheneverFirstSourceFails ==
    SatelliteCall =>
        \A i \in 1..Len(stLookups) :
            stLookups[i].pc = "done" =>
                /\ stLookups[i].log[1] # "lines" => Len(stLookups[i].log) = 2
                /\ stLookups[i].tle.null => Len(stLookups[i].log) = 2

====
